---------------------------- MODULE Spec2Model ----------------------------
(***************************************************************************)
(* A model of the intelligence platform (Application A): the CRUD library, *)
(* the scraper's pagination, the intelligence list/export queries, the     *)
(* crawl endpoints and the AI-processing endpoints.                        *)
(*                                                                         *)
(* The platform's subsystems share no state except the database tables, so *)
(* each one is given its own specification over its own variables; the     *)
(* variables of the other subsystems stay at their idle values.            *)
(***************************************************************************)
EXTENDS Integers, Sequences, FiniteSets, TLC

VARIABLES
    \* --- domain normalisation (crud_operations._parse_domain) ---
    dom_raw,        \* the raw string handed to _parse_domain (a sequence of characters)
    dom_once,       \* _parse_domain(raw)
    dom_twice,      \* _parse_domain(_parse_domain(raw))
    dom_pc,         \* how far the caller got: "raw", "once" or "twice"
    \* --- scraper pagination (ScraperRecipe, Scraper._get_next_page_url) ---
    rcp_args,       \* the keyword arguments ScraperRecipe was given
    recipe,         \* the recipe after __post_init__
    scr_pc,         \* "args", "ValueError", "fetch" (about to scrape page_num), "asked", "done"
    page_num,       \* the loop index of Scraper.scrape: the page being scraped
    current_url,    \* the URL of that page
    next_url,       \* what _get_next_page_url last returned (<<>> for None)
    site,           \* the site being scraped: what each page URL serves
    max_links,      \* the max_links argument of Scraper.scrape
    results,        \* the results of the run, in insertion order: items [title, url]
    visited,        \* the URLs the run fetched, in order
    \* --- intelligence list query (get_intelligence_list) ---
    lq_params,      \* the query parameters of the request
    lq_where,       \* the where_conditions the handler built: a sequence of conditions
    lq_pc,          \* "request" before the handler ran, "done" after
    lq_items,       \* the items of the page the handler returned, in order
    \* --- sources / topics / clients (crud_operations and their endpoints) ---
    sources,        \* the sources table: a set of rows [id, domain, recipe_json]
    topics,         \* the topics table: the set of topic ids that exist
    clients,        \* the clients table: the set of client ids that exist
    source_topics,  \* topic_source_association: a set of <<source id, topic id>>
    client_topics,  \* client_topic_association: a set of <<client id, topic id>>
    job_queue,      \* the text of job_queue.txt: a sequence of pieces, "\n" the line end
    request,        \* the last request served: its endpoint and the ids it refers to
    response,       \* the response to it: its HTTP status and what it says
    \* --- intelligence table, export and AI processing ---
    intelligence,   \* the committed intelligence table: a set of rows
    intel_sources,  \* the committed intelligence_sources table: a set of rows
    ex_request,     \* the last export request
    ex_response,    \* the response to it
    ai_batch,       \* the batch AI request: its phase, variant, ids, loop index, results, success_count
    ai_response,    \* the response of the last AI request
    ai_sessions,    \* the sessions the current AI request opened, each "open", "closed" or "close failed"
    llm_output,     \* what the LLM call of one article analysis produced
    analysis,       \* what analyze_article_with_deepseek handed to its caller
    \* --- crawl (start_crawling, start_crawling_with_date_extraction) ---
    crawl,          \* the crawl request in progress: its locals and counters
    tx_intel,       \* the intelligence table as the crawl's session sees it
    tx_sources,     \* the intelligence_sources table as the crawl's session sees it
    \* --- dashboard crawl (logic.crawl_all_sites) ---
    articles,       \* the committed Article table of the dashboard: a set of rows [id, url]
    dash            \* the dashboard crawl in progress: the page's items, the loop index,
                    \* the Article table as its session sees it, and its counters

domVars    == <<dom_raw, dom_once, dom_twice, dom_pc>>
scrapeVars == <<rcp_args, recipe, scr_pc, page_num, current_url, next_url,
                site, max_links, results, visited>>
listVars   == <<lq_params, lq_where, lq_pc, lq_items>>
crudVars   == <<sources, topics, clients, source_topics, client_topics, job_queue, request, response>>
tableVars  == <<intelligence, intel_sources>>
exportVars == <<ex_request, ex_response>>
aiVars     == <<ai_batch, ai_response, ai_sessions, llm_output, analysis>>
crawlVars  == <<crawl, tx_intel, tx_sources, articles, dash>>

vars == <<domVars, scrapeVars, listVars, crudVars, tableVars, exportVars, aiVars, crawlVars>>

\* Python's None, and the marker of a step that has not run yet.
None   == "None"
NotRun == "NotRun"

(***************************************************************************)
(* Idle values: what a subsystem's variables hold while another            *)
(* subsystem's specification runs.                                         *)
(***************************************************************************)
IdleDom    == dom_raw = <<>> /\ dom_once = <<>> /\ dom_twice = <<>> /\ dom_pc = "raw"
IdleScrape == rcp_args = None /\ recipe = None /\ scr_pc = "args" /\ page_num = 0
              /\ current_url = <<>> /\ next_url = <<>>
              /\ site = None /\ max_links = 0 /\ results = <<>> /\ visited = <<>>
IdleList   == lq_params = None /\ lq_where = <<>> /\ lq_pc = "request" /\ lq_items = <<>>
IdleCrud   == sources = {} /\ topics = {} /\ clients = {} /\ source_topics = {}
              /\ client_topics = {} /\ job_queue = <<>> /\ request = None /\ response = None
IdleTables == intelligence = {} /\ intel_sources = {}
IdleExport == ex_request = None /\ ex_response = None
IdleAi     == ai_batch = None /\ ai_response = None /\ ai_sessions = <<>>
              /\ llm_output = None /\ analysis = None
IdleCrawl  == crawl = None /\ tx_intel = <<>> /\ tx_sources = <<>>
              /\ articles = {} /\ dash = None

(***************************************************************************)
(*                    DOMAIN NORMALISATION                                 *)
(* crud_operations._parse_domain, on strings modelled as sequences of      *)
(* one-character strings.                                                  *)
(***************************************************************************)

\* The most pieces an input string is assembled from.
MaxTokens == 3

\* The pieces the inputs are assembled from: host names in both letter
\* cases, the www. prefix in both cases, a scheme, a path, a blank.
DomTokens ==
    { <<"W", "W", "W", ".">>,
      <<"w", "w", "w", ".">>,
      <<"E", "x", ".", "c">>,
      <<"e", "x", ".", "c">>,
      <<"h", "t", "t", "p", "s", ":", "/", "/">>,
      <<"/", "p">>,
      <<" ">> }

RECURSIVE Concat(_)
Concat(ts) == IF ts = <<>> THEN <<>> ELSE Head(ts) \o Concat(Tail(ts))

DomInputs == { Concat(ts) : ts \in UNION { [1..n -> DomTokens] : n \in 0..MaxTokens } }

UpperLetters == {"W", "E", "X", "C", "P", "H", "T", "S"}
LowerLetters == {"w", "e", "x", "c", "p", "h", "t", "s"}

\* str.lower() on one character.
LowerChar(c) ==
    CASE c = "W" -> "w" [] c = "E" -> "e" [] c = "X" -> "x" [] c = "C" -> "c"
      [] c = "P" -> "p" [] c = "H" -> "h" [] c = "T" -> "t" [] c = "S" -> "s"
      [] OTHER -> c

\* str.lower()
Lower(s) == [i \in 1..Len(s) |-> LowerChar(s[i])]

\* str.startswith(p)
StartsWith(s, p) == Len(s) >= Len(p) /\ SubSeq(s, 1, Len(p)) = p

\* p in s
Contains(s, p) == \E i \in 1..(Len(s) - Len(p) + 1) : SubSeq(s, i, i + Len(p) - 1) = p

\* The 1-based index of the first character of s that is in C, 0 when there is none.
FindFirst(s, C) ==
    IF \E i \in 1..Len(s) : s[i] \in C
    THEN CHOOSE i \in 1..Len(s) : s[i] \in C /\ \A j \in 1..(i - 1) : s[j] \notin C
    ELSE 0

RECURSIVE LStrip(_)
LStrip(s) == IF s # <<>> /\ Head(s) = " " THEN LStrip(Tail(s)) ELSE s

RECURSIVE RStrip(_)
RStrip(s) == IF s # <<>> /\ s[Len(s)] = " " THEN RStrip(SubSeq(s, 1, Len(s) - 1)) ELSE s

\* str.strip()
Strip(s) == RStrip(LStrip(s))

\* urllib.parse.urlparse, as far as _parse_domain reads its result: the
\* scheme is split off when the text before the first colon is a valid
\* scheme, the netloc is what follows a leading // up to the first / ? or #,
\* and the path is the rest up to the first # or ?.
SchemeChars == UpperLetters \cup LowerLetters \cup {"0", "1", "2", "3", "4", "5", "6", "7", "8", "9", "+", "-", "."}

UrlParse(url0) ==
    LET url1      == LStrip(url0)
        i         == FindFirst(url1, {":"})
        hasScheme == /\ i > 1
                     /\ url1[1] \in UpperLetters \cup LowerLetters
                     /\ \A k \in 1..(i - 1) : url1[k] \in SchemeChars
        url2      == IF hasScheme THEN SubSeq(url1, i + 1, Len(url1)) ELSE url1
        hasNetloc == StartsWith(url2, <<"/", "/">>)
        rest      == SubSeq(url2, 3, Len(url2))
        d         == FindFirst(rest, {"/", "?", "#"})
        netloc    == IF ~hasNetloc THEN <<>>
                     ELSE IF d = 0 THEN rest ELSE SubSeq(rest, 1, d - 1)
        url3      == IF ~hasNetloc THEN url2
                     ELSE IF d = 0 THEN <<>> ELSE SubSeq(rest, d, Len(rest))
        f         == FindFirst(url3, {"#"})
        url4      == IF f = 0 THEN url3 ELSE SubSeq(url3, 1, f - 1)
        q         == FindFirst(url4, {"?"})
        path      == IF q = 0 THEN url4 ELSE SubSeq(url4, 1, q - 1)
    IN  [scheme |-> IF hasScheme THEN Lower(SubSeq(url1, 1, i - 1)) ELSE <<>>,
         netloc |-> netloc,
         path   |-> path]

\* host.split("/")[0]
FirstSegment(host) ==
    LET k == FindFirst(host, {"/"})
    IN  IF k = 0 THEN host ELSE SubSeq(host, 1, k - 1)

\* `if host.startswith("www."): host = host[4:]`: the prefix is compared
\* as written, before the host is lower-cased.
StripWww(host) ==
    IF StartsWith(host, <<"w", "w", "w", ".">>) THEN SubSeq(host, 5, Len(host)) ELSE host

ParseDomain(raw0) ==
    LET raw == Strip(raw0)
    IN  IF raw = <<>> THEN <<>>
        ELSE LET p    == UrlParse(IF Contains(raw, <<":", "/", "/">>)
                                  THEN raw
                                  ELSE <<"h", "t", "t", "p", "s", ":", "/", "/">> \o raw)
                 host == IF p.netloc # <<>> THEN p.netloc ELSE p.path
             IN  Lower(StripWww(FirstSegment(host)))

InitDom ==
    /\ dom_raw \in DomInputs
    /\ dom_once = <<>>
    /\ dom_twice = <<>>
    /\ dom_pc = "raw"
    /\ IdleScrape /\ IdleList /\ IdleCrud /\ IdleTables /\ IdleExport /\ IdleAi /\ IdleCrawl

\* A caller normalises the raw string (sources.py:1024, sources.py:98).
NormalizeOnce ==
    /\ dom_pc = "raw"
    /\ dom_once' = ParseDomain(dom_raw)
    /\ dom_pc' = "once"
    /\ UNCHANGED <<dom_raw, dom_twice>>

\* The normalised domain is normalised again (a stored domain is submitted back).
NormalizeTwice ==
    /\ dom_pc = "once"
    /\ dom_twice' = ParseDomain(dom_once)
    /\ dom_pc' = "twice"
    /\ UNCHANGED <<dom_raw, dom_once>>

NextDom ==
    \/ NormalizeOnce /\ UNCHANGED <<scrapeVars, listVars, crudVars, tableVars, exportVars, aiVars, crawlVars>>
    \/ NormalizeTwice /\ UNCHANGED <<scrapeVars, listVars, crudVars, tableVars, exportVars, aiVars, crawlVars>>

SpecDom == InitDom /\ [][NextDom]_vars

\* C5: normalising a normalised domain changes nothing
\* (_parse_domain(_parse_domain(s)) = _parse_domain(s) for every input s).
C5_NormalizeIdempotent == dom_pc = "twice" => dom_twice = dom_once

(***************************************************************************)
(*                    SCRAPER PAGINATION                                   *)
(* ScraperRecipe.__post_init__ and Scraper._get_next_page_url, driven by   *)
(* the loop of Scraper.scrape.  A URL is a sequence of pieces; the empty   *)
(* sequence stands for None and for the empty string.                      *)
(***************************************************************************)

\* The largest max_pages a recipe is given.
MaxPages == 3

\* page_pattern values: the spec's pattern, one without a placeholder, none.
PatX == <<"https://x.com/news?page=", "{n}">>
PagePatterns == { PatX, <<"https://x.com/list">>, <<>> }

\* What the page's first element matching next_page_selector links to
\* (after the exclude_current_page filter): nothing, a page, a page with a
\* fragment, a bare fragment.
NextHrefs == { <<>>, <<"https://x.com/news?page=", "1">>, <<"https://x.com/news?page=", "2">>,
               <<"https://x.com/news?page=", "1", "#top">>, <<"#top">> }

RecipeArgs ==
    [ domain             : {"x.com", "drupal.org"},
      pagination_mode    : {"none", "number", "next", "loadmore"},
      page_pattern       : PagePatterns,
      next_page_selector : {"", "a.next", "a[data-options]"},
      load_more_selector : {"", "button.more"},
      drupal_zero_based  : BOOLEAN,
      max_pages          : -1..MaxPages ]

\* str(n) for a natural number.
RECURSIVE IntToStr(_)
IntToStr(n) ==
    LET digit(d) == CASE d = 0 -> "0" [] d = 1 -> "1" [] d = 2 -> "2" [] d = 3 -> "3"
                      [] d = 4 -> "4" [] d = 5 -> "5" [] d = 6 -> "6" [] d = 7 -> "7"
                      [] d = 8 -> "8" [] d = 9 -> "9"
    IN  IF n < 10 THEN <<digit(n)>> ELSE IntToStr(n \div 10) \o <<digit(n % 10)>>

\* page_pattern.replace('{n}', str(param))
ReplaceN(pattern, param) ==
    Concat([i \in 1..Len(pattern) |-> IF pattern[i] = "{n}" THEN IntToStr(param) ELSE <<pattern[i]>>])

\* ScraperRecipe.__post_init__: the zero-based flag is forced on whenever a
\* page_pattern comes with a drupal domain, a data-options selector or the
\* number mode; a mode without its selector or pattern is a ValueError;
\* max_pages below 1 becomes 1.
PostInit(a) ==
    LET auto == /\ a.page_pattern # <<>>
                /\ \/ a.domain = "drupal.org"
                   \/ a.next_page_selector = "a[data-options]"
                   \/ a.pagination_mode = "number"
        bad  == \/ a.pagination_mode = "number" /\ a.page_pattern = <<>>
                \/ a.pagination_mode = "next" /\ a.next_page_selector = ""
                \/ a.pagination_mode = "loadmore" /\ a.load_more_selector = ""
    IN  IF bad THEN [a EXCEPT !.drupal_zero_based = auto \/ @] @@ [error |-> TRUE]
        ELSE [a EXCEPT !.drupal_zero_based = auto \/ @,
                       !.max_pages = IF @ <= 0 THEN 1 ELSE @] @@ [error |-> FALSE]

\* _normalize_url: urljoin(base, href), then urldefrag.
NormalizeUrl(base, href) ==
    LET joined == IF href # <<>> /\ href[1] = "#top" THEN base \o href ELSE href
    IN  SelectSeq(joined, LAMBDA piece : piece # "#top")

\* Scraper._get_next_page_url(html, current_url, page_num), href being what
\* the html's next-page element links to.
GetNextPageUrl(r, href, cur, pn) ==
    IF pn >= r.max_pages - 1 THEN <<>>
    ELSE IF r.pagination_mode = "number" /\ r.page_pattern # <<>>
         THEN ReplaceN(r.page_pattern, IF r.drupal_zero_based THEN pn + 1 ELSE pn + 2)
    ELSE IF r.pagination_mode = "loadmore" THEN <<>>
    ELSE IF r.pagination_mode \in {"next", "none"} /\ r.next_page_selector # ""
         THEN IF href # <<>> /\ NormalizeUrl(cur, href) # cur
              THEN NormalizeUrl(cur, href) ELSE <<>>
    ELSE <<>>

InitScrape ==
    /\ rcp_args \in RecipeArgs
    /\ recipe = None
    /\ scr_pc = "args"
    /\ page_num = 0
    /\ current_url = <<>>
    /\ next_url = <<>>
    /\ site = None /\ max_links = 0 /\ results = <<>> /\ visited = <<>>
    /\ IdleDom /\ IdleList /\ IdleCrud /\ IdleTables /\ IdleExport /\ IdleAi /\ IdleCrawl

\* ScraperRecipe(**args), then Scraper(recipe) and the first lines of scrape().
ConstructRecipe ==
    /\ scr_pc = "args"
    /\ recipe' = PostInit(rcp_args)
    /\ scr_pc' = IF recipe'.error THEN "ValueError" ELSE "fetch"
    /\ current_url' = <<"https://", rcp_args.domain, "/">>
    /\ UNCHANGED <<rcp_args, page_num, next_url>>
    /\ UNCHANGED <<site, max_links, results, visited>>

\* One pass of the loop of scrape() up to the call of _get_next_page_url:
\* the page is fetched and parsed; a failed fetch, or max_links results,
\* ends the loop before the next page is asked for.
ScrapePage(href, stop) ==
    /\ scr_pc = "fetch"
    /\ IF stop THEN scr_pc' = "done" /\ UNCHANGED next_url
       ELSE /\ next_url' = GetNextPageUrl(recipe, href, current_url, page_num)
            /\ scr_pc' = "asked"
    /\ UNCHANGED <<rcp_args, recipe, page_num, current_url>>
    /\ UNCHANGED <<site, max_links, results, visited>>

\* The rest of the pass: `if not next_url: break`, `current_url = next_url`,
\* and the loop's range(max(1, max_pages)).
AdvancePage ==
    /\ scr_pc = "asked"
    /\ IF next_url = <<>> THEN scr_pc' = "done" /\ UNCHANGED <<page_num, current_url>>
       ELSE /\ current_url' = next_url
            /\ IF page_num + 1 < recipe.max_pages
               THEN page_num' = page_num + 1 /\ scr_pc' = "fetch"
               ELSE scr_pc' = "done" /\ UNCHANGED page_num
    /\ UNCHANGED <<rcp_args, recipe, next_url>>
    /\ UNCHANGED <<site, max_links, results, visited>>

NextScrape ==
    \/ ConstructRecipe /\ UNCHANGED <<domVars, listVars, crudVars, tableVars, exportVars, aiVars, crawlVars>>
    \/ \E href \in NextHrefs, stop \in BOOLEAN :
         ScrapePage(href, stop) /\ UNCHANGED <<domVars, listVars, crudVars, tableVars, exportVars, aiVars, crawlVars>>
    \/ AdvancePage /\ UNCHANGED <<domVars, listVars, crudVars, tableVars, exportVars, aiVars, crawlVars>>

SpecScrape == InitScrape /\ [][NextScrape]_vars

\* C6: with pagination_mode "number" and page_pattern
\* https://x.com/news?page={n}, the next-page URL asked for after page
\* index 0 carries 1 when the recipe was given drupal_zero_based=True and
\* 2 when it was given drupal_zero_based=False.
C6_NumberPageParam ==
    (/\ scr_pc = "asked" /\ page_num = 0 /\ next_url # <<>>
     /\ rcp_args.pagination_mode = "number" /\ rcp_args.page_pattern = PatX)
        => next_url = <<"https://x.com/news?page=", IF rcp_args.drupal_zero_based THEN "1" ELSE "2">>

(***************************************************************************)
(*                    SCRAPE RUN                                           *)
(* Scraper.scrape with _parse_one_page on a site of two pages, for a       *)
(* recipe in next-link mode whose start_url is page 1.  A title is a       *)
(* sequence of characters.                                                 *)
(***************************************************************************)

\* The most anchors a page carries, and the largest max_links a caller passes.
MaxAnchors == 2
MaxLinks == 2

\* The anchors of a page: a.get("href") and _text_of(a), which is
\* get_text(" ", strip=True): stripped at both ends, inner whitespace kept.
Anchors ==
    [ href : { <<"https://x.com/a1">>, <<"https://x.com/a2">>, <<"mailto:a@x.com">> },
      text : { <<"a">>, <<"a", " ", " ", "b">> } ]

\* What the two page URLs serve: the anchors under list_selector and the
\* href of the next-page element (page 1 can link to page 2 and page 2 back
\* to page 1).
Sites ==
    [ p1 : [ anchors : UNION { [1..n -> Anchors] : n \in 0..MaxAnchors },
             next : { <<>>, ReplaceN(PatX, 2) } ],
      p2 : [ anchors : UNION { [1..n -> Anchors] : n \in 0..MaxAnchors },
             next : { <<>>, ReplaceN(PatX, 1) } ] ]

\* _fetch_html(url) on the site s.
FetchHtml(s, url) == IF url = ReplaceN(PatX, 1) THEN s.p1 ELSE s.p2

\* ScrapedItem.__post_init__ on the title: strip(), then re.sub(r'\s+', ' ').
CleanTitle(t) ==
    LET st   == Strip(t)
        prev == [i \in 1..Len(st) |-> <<st[i], IF i > 1 THEN st[i - 1] ELSE "">>]
        kept == SelectSeq(prev, LAMBDA c : ~(c[1] = " " /\ c[2] = " "))
    IN  [i \in 1..Len(kept) |-> kept[i][1]]

\* url.startswith(('http://', 'https://')) of ScrapedItem.__post_init__.
StartsWithHttp(url) == url # <<>> /\ url[1] # "mailto:a@x.com"

\* _parse_one_page from anchor i on: an anchor without href, or whose URL
\* is a key of results, is skipped; a non-blank title that is not among
\* the titles of results constructs ScrapedItem(title, url), which raises
\* ValueError out of the function for a URL that is not http(s), and is
\* added otherwise; after that the page is left once len(results) >=
\* max_links.  The value is the results dictionary as the call leaves it,
\* and whether the call raised.
RECURSIVE ParseOnePage(_, _, _, _, _)
ParseOnePage(anchors, i, page_url, m, res) ==
    IF i > Len(anchors) THEN [results |-> res, raised |-> FALSE]
    ELSE LET a     == anchors[i]
             url   == NormalizeUrl(page_url, a.href)
             fresh == Strip(a.text) # <<>> /\ \A k \in 1..Len(res) : res[k].title # a.text
             added == IF fresh THEN Append(res, [title |-> CleanTitle(a.text), url |-> url]) ELSE res
         IN  IF a.href = <<>> \/ url = <<>> \/ \E k \in 1..Len(res) : res[k].url = url
             THEN ParseOnePage(anchors, i + 1, page_url, m, res)
             ELSE IF fresh /\ ~StartsWithHttp(url) THEN [results |-> res, raised |-> TRUE]
             ELSE IF Len(added) >= m THEN [results |-> added, raised |-> FALSE]
             ELSE ParseOnePage(anchors, i + 1, page_url, m, added)

InitRun ==
    /\ rcp_args \in { a \in RecipeArgs :
                        /\ a.domain = "x.com" /\ a.pagination_mode = "next" /\ a.page_pattern = <<>>
                        /\ a.next_page_selector = "a.next" /\ a.load_more_selector = ""
                        /\ ~a.drupal_zero_based /\ a.max_pages >= 1 }
    /\ recipe = PostInit(rcp_args)
    /\ scr_pc = "fetch"
    /\ page_num = 0
    /\ current_url = ReplaceN(PatX, 1)
    /\ next_url = <<>>
    /\ site \in Sites
    /\ max_links \in 0..MaxLinks
    /\ results = <<>>
    /\ visited = <<>>
    /\ IdleDom /\ IdleList /\ IdleCrud /\ IdleTables /\ IdleExport /\ IdleAi /\ IdleCrawl

\* _parse_one_page on the page at current_url.
ParsedPage == ParseOnePage(FetchHtml(site, current_url).anchors, 1, current_url, max_links, results)

\* One pass of the loop of scrape(): fetch and parse current_url, stop when
\* max_links results are reached, else ask for the next page and move to
\* it.  An exception out of _parse_one_page reaches the loop's `except
\* Exception`, which prints it and breaks.
RunPage ==
    /\ scr_pc = "fetch"
    /\ visited' = Append(visited, current_url)
    /\ results' = ParsedPage.results
    /\ next_url' = IF ParsedPage.raised \/ Len(results') >= max_links THEN next_url
                   ELSE GetNextPageUrl(recipe, FetchHtml(site, current_url).next, current_url, page_num)
    /\ IF ParsedPage.raised \/ Len(results') >= max_links \/ next_url' = <<>> \/ page_num + 1 >= recipe.max_pages
       THEN scr_pc' = "done" /\ UNCHANGED page_num
       ELSE scr_pc' = "fetch" /\ page_num' = page_num + 1
    /\ current_url' = IF ParsedPage.raised \/ Len(results') >= max_links \/ next_url' = <<>>
                      THEN current_url ELSE next_url'
    /\ UNCHANGED <<rcp_args, recipe, site, max_links>>
    /\ UNCHANGED <<domVars, listVars, crudVars, tableVars, exportVars, aiVars, crawlVars>>

NextRun == RunPage

SpecRun == InitRun /\ [][NextRun]_vars

\* C11: two anchors with the same extracted title text and different URLs
\* leave one item with that title in the result set, the first one
\* encountered: no two results share a title, and a pass of the loop never
\* removes or replaces a result it found before.
C11_FirstTitleWins ==
    [][ /\ \A i, j \in 1..Len(results') : i # j => results'[i].title # results'[j].title
        /\ Len(results) <= Len(results')
        /\ \A i \in 1..Len(results) : results'[i] = results[i]
      ]_vars

\* C12: in next-link pagination a run never fetches the same page URL twice.
C12_NoUrlTwice == \A i, j \in 1..Len(visited) : i # j => visited[i] # visited[j]

\* C13: a run called with max_links = m never holds more than m items.
C13_AtMostMaxLinks == Len(results) <= max_links

\* The anchors of a page whose resolved URL starts with http:// or https://.
HttpAnchors(anchors, page_url) == SelectSeq(anchors, LAMBDA a : StartsWithHttp(NormalizeUrl(page_url, a.href)))

\* C30: an anchor whose resolved URL does not start with http:// or
\* https:// is the only thing a scrape drops: a pass of the loop leaves the
\* results it would leave for the page without such anchors, so every valid
\* anchor after one is collected, and the run ends there only for max_links
\* reached, no next page, or max_pages reached, so later pages are still
\* fetched.
C30_OnlyInvalidDropped ==
    [][ RunPage =>
          /\ results' = ParseOnePage(HttpAnchors(FetchHtml(site, current_url).anchors, current_url), 1,
                                     current_url, max_links, results).results
          /\ scr_pc' = "done" =>
                \/ Len(results') >= max_links
                \/ GetNextPageUrl(recipe, FetchHtml(site, current_url).next, current_url, page_num) = <<>>
                \/ page_num + 1 >= recipe.max_pages
      ]_vars


(***************************************************************************)
(*                    INTELLIGENCE LIST QUERY                              *)
(* get_intelligence_list: how the request's title and date parameters      *)
(* become where_conditions.  A parameter is None (absent), one of the      *)
(* strings the handler treats as absent, an unparseable string or a date;  *)
(* the handler treats None and the string "None" alike.                    *)
(***************************************************************************)

\* The number of distinct valid dates a request may carry.
MaxDates == 2

ValidDates == { IntToStr(20240100 + d) : d \in 1..MaxDates }
DateInputs == { <<"N", "o", "n", "e">>, <<"n", "u", "l", "l">>, <<"b", "a", "d">> } \cup ValidDates

\* `x and x not in ["None", "null", ""]`
Supplied(x) == x \notin { <<"N", "o", "n", "e">>, <<"n", "u", "l", "l">>, <<>> }

\* dateutil.parser.parse: the digits of a date become a day number, anything else raises.
RECURSIVE StrToInt(_)
StrToInt(str) ==
    LET value(c) == CHOOSE d \in 0..9 : IntToStr(d) = <<c>>
    IN  IF str = <<>> THEN 0 ELSE 10 * StrToInt(SubSeq(str, 1, Len(str) - 1)) + value(str[Len(str)])

DateParses(str) == str # <<>> /\ \A i \in 1..Len(str) : \E d \in 0..9 : IntToStr(d) = <<str[i]>>

\* One `try: parse; where_conditions.append(...) except: print` block.
DateCondition(col, op, str) ==
    IF DateParses(str) THEN << [col |-> col, op |-> op, val |-> StrToInt(str)] >> ELSE <<>>

\* The date section of get_intelligence_list: an `if` for news_start_date,
\* then one if / elif / elif chain over news_end_date, start_date, end_date.
DateConditions(q) ==
    (IF Supplied(q.news_start_date)
     THEN DateCondition("news_time", ">=", q.news_start_date) ELSE <<>>)
    \o
    (IF Supplied(q.news_end_date) THEN DateCondition("news_time", "<=", q.news_end_date)
     ELSE IF Supplied(q.start_date) THEN DateCondition("collect_time", ">=", q.start_date)
     ELSE IF Supplied(q.end_date) THEN DateCondition("collect_time", "<=", q.end_date)
     ELSE <<>>)

\* `if title_str and title_str.strip() and title_str not in [...]`
TitleCondition(q) ==
    IF Supplied(q.title) /\ Strip(q.title) # <<>>
    THEN << [col |-> "title", op |-> "LIKE", val |-> q.title] >> ELSE <<>>

InitList ==
    /\ lq_params \in [ title : { <<"N", "o", "n", "e">>, <<" ">>, <<"a", "i">> },
                       news_start_date : DateInputs, news_end_date : DateInputs,
                       start_date : DateInputs, end_date : DateInputs ]
    /\ lq_where = <<>>
    /\ lq_pc = "request"
    /\ lq_items = <<>>
    /\ IdleDom /\ IdleScrape /\ IdleCrud /\ IdleTables /\ IdleExport /\ IdleAi /\ IdleCrawl

\* GET /api/intelligence/list, the table being empty.
GetIntelligenceList ==
    /\ lq_pc = "request"
    /\ lq_where' = TitleCondition(lq_params) \o DateConditions(lq_params)
    /\ lq_pc' = "done"
    /\ lq_items' = <<>>
    /\ UNCHANGED lq_params

NextList ==
    GetIntelligenceList /\ UNCHANGED <<domVars, scrapeVars, crudVars, tableVars, exportVars, aiVars, crawlVars>>

SpecList == InitList /\ [][NextList]_vars

\* C10: the date conditions of the list query are every supplied news-time
\* bound when at least one news-time bound is supplied, and otherwise every
\* supplied collect-time bound; collect-time bounds never accompany a
\* news-time bound.  (Stated for requests whose supplied dates all parse.)
C10_DateFallback ==
    LET q       == lq_params
        has(f)  == Supplied(q[f])
        applied == { <<lq_where[i].col, lq_where[i].op>> :
                       i \in { j \in 1..Len(lq_where) : lq_where[j].col # "title" } }
        news    == { c \in { <<"news_time", ">=">>, <<"news_time", "<=">> } :
                       has(IF c[2] = ">=" THEN "news_start_date" ELSE "news_end_date") }
        collect == { c \in { <<"collect_time", ">=">>, <<"collect_time", "<=">> } :
                       has(IF c[2] = ">=" THEN "start_date" ELSE "end_date") }
    IN  (/\ lq_pc = "done"
         /\ \A f \in {"news_start_date", "news_end_date", "start_date", "end_date"} :
               has(f) => DateParses(q[f]))
            => applied = IF news # {} THEN news ELSE collect

(***************************************************************************)
(*                    SOURCES, TOPICS, CLIENTS                             *)
(* crud_operations and the endpoints of sources.py, clients.py, topics.py. *)
(* A response is its HTTP status and a word for what it says.              *)
(***************************************************************************)

\* Requests name ids from 1 to MaxId; the clients and topics with a smaller
\* id exist at the start, and a source id never exceeds MaxId.
MaxId == 2

Ids == 1..MaxId

\* The url field of the AI-suggest form, as typed.
UrlInputs == { <<>>, <<" ">>, <<"u">>, <<" ", "u", " ">>, <<"u", "\n", "v">>, <<"u", "\"">> }

\* The domain field of the save form, as typed.
FormDomains == { <<"e", "x", ".", "c">>, <<"w", "w", "w", ".", "e", "x", ".", "c">>,
                 <<"W", "W", "W", ".", "E", "x", ".", "c">>, <<" ">> }

\* The fields of the save form that the model varies; source_id 0 is an
\* absent one, topic_ids is None unless has_topic_ids, and the pagination
\* fields are left out of the request.
SaveForms ==
    { f \in [ source_id : 0..MaxId, domain : FormDomains, list_selector : {"ul.news"},
              pagination_mode : {"next", "number"},
              next_page_selector : {None}, load_more_selector : {None}, page_pattern : {None},
              has_topic_ids : BOOLEAN, topic_ids : {<<>>, <<1>>} ] :
        f.has_topic_ids \/ f.topic_ids = <<>> }

\* recipe_data of api_create_or_update_source_enhanced, before json.dumps.
RecipeData(form, domain) ==
    [domain |-> domain, list_selector |-> form.list_selector,
     pagination_mode |-> form.pagination_mode, max_pages |-> 1]
    @@ (CASE form.pagination_mode = "next"     -> [next_page_selector |-> form.next_page_selector]
          [] form.pagination_mode = "loadmore" -> [load_more_selector |-> form.load_more_selector]
          [] form.pagination_mode = "number"   -> [page_pattern |-> form.page_pattern, drupal_zero_based |-> TRUE]
          [] OTHER                             -> [k \in {} |-> None])

\* Does the row a request refers to exist?  ref is <<table, id>>.
Exists(ref) ==
    CASE ref[1] = "source" -> \E r \in sources : r.id = ref[2]
      [] ref[1] = "topic"  -> ref[2] \in topics
      [] ref[1] = "client" -> ref[2] \in clients

\* crud_operations.set_source_topics for an existing source.
SetSourceTopics(sid, topic_ids) ==
    { p \in source_topics : p[1] # sid }
        \cup { <<sid, topic_ids[i]>> : i \in { j \in 1..Len(topic_ids) : topic_ids[j] \in topics } }

\* The id SQLite gives a new row: one more than the largest in the table.
NewId(ids) == IF ids = {} THEN 1 ELSE 1 + CHOOSE m \in ids : \A k \in ids : k <= m

\* crud_operations.upsert_source: the sources table it leaves, with the
\* error it raises if any: IntegrityError when the UNIQUE constraint on
\* domain rejects the write, NoResultFound when scalar_one() finds no row.
UpsertSource(source_id, domain, recipe_json) ==
    LET row(id) == [id |-> id, domain |-> domain, recipe_json |-> recipe_json]
        has     == \E r \in sources : r.id = source_id
        taken   == \E r \in sources : r.domain = domain /\ r.id # source_id
    IN  IF source_id # 0
        THEN IF ~has THEN [error |-> "NoResultFound", table |-> sources, id |-> 0]
             ELSE IF taken THEN [error |-> "IntegrityError", table |-> sources, id |-> 0]
             ELSE [error |-> "", id |-> source_id,
                   table |-> { IF r.id = source_id THEN row(r.id) ELSE r : r \in sources }]
        ELSE IF taken THEN [error |-> "IntegrityError", table |-> sources, id |-> 0]
             ELSE [error |-> "", id |-> NewId({ r.id : r \in sources }),
                   table |-> sources \cup { row(NewId({ r.id : r \in sources })) }]

\* The endpoint answers; the other subsystems' variables are not touched.
\* The most lines the model lets the queue file grow to.
MaxJobs == 2

\* The text between the quotes kept as it is.
RawQuoted(chars) == <<"\"">> \o chars \o <<"\"">>

\* json.dumps(..., ensure_ascii=False) of a str: in quotes, with the quote,
\* the backslash and the line feed escaped.
JsonString(chars) ==
    <<"\"">>
    \o [ i \in 1..Len(chars) |->
           CASE chars[i] = "\n" -> "\\n"
             [] chars[i] = "\"" -> "\\\""
             [] chars[i] = "\\" -> "\\\\"
             [] OTHER -> chars[i] ]
    \o <<"\"">>

\* The lines of a text, as Python's iteration over the file yields them
\* without their line ends, from piece i on, cur the line begun so far.
RECURSIVE QueueLines(_, _, _)
QueueLines(file, i, cur) ==
    IF i > Len(file) THEN (IF cur = "" THEN <<>> ELSE <<cur>>)
    ELSE IF file[i] = "\n" THEN <<cur>> \o QueueLines(file, i + 1, "")
    ELSE QueueLines(file, i + 1, cur \o file[i])

\* The response of a handler that does not write to the queue file.
Respond(op, refs, status, says) ==
    /\ request' = [op |-> op, refs |-> refs]
    /\ response' = [status |-> status, says |-> says]
    /\ UNCHANGED job_queue
    /\ UNCHANGED <<domVars, scrapeVars, listVars, tableVars, exportVars, aiVars, crawlVars>>

InitCrud ==
    /\ sources = {}
    /\ topics = 1..(MaxId - 1)
    /\ clients = 1..(MaxId - 1)
    /\ source_topics = {}
    /\ client_topics = {}
    /\ job_queue = <<>>
    /\ request = [op |-> "none", refs |-> {}]
    /\ response = [status |-> 0, says |-> ""]
    /\ IdleDom /\ IdleScrape /\ IdleList /\ IdleTables /\ IdleExport /\ IdleAi /\ IdleCrawl
\* api_create_or_update_source_enhanced from the line after
\* `domain = crud_operations._parse_domain(domain)`.
SaveParsed(form, domain) ==
    LET up     == UpsertSource(form.source_id, domain, RecipeData(form, domain))
        refs   == IF form.source_id # 0 THEN {<<"source", form.source_id>>} ELSE {}
    IN  /\ up.id <= MaxId
        /\ IF domain = <<>>
           THEN Respond("save_source", refs, 400, "invalid domain") /\ UNCHANGED <<sources, source_topics>>
           ELSE IF up.error # ""
           THEN Respond("save_source", refs, 500, up.error) /\ UNCHANGED <<sources, source_topics>>
           ELSE /\ sources' = up.table
                /\ source_topics' = IF ~form.has_topic_ids THEN source_topics
                                    ELSE SetSourceTopics(up.id, form.topic_ids)
                /\ Respond("save_source", refs, 200, IF form.source_id # 0 THEN "updated" ELSE "created/overwritten")
        /\ UNCHANGED <<topics, clients, client_topics>>

\* POST /api/sources/manual_enhanced
SaveSource(form) == SaveParsed(form, ParseDomain(form.domain))

\* POST /api/sources/{source_id}/test
TestSource(id) ==
    /\ IF Exists(<<"source", id>>) THEN Respond("test_source", {<<"source", id>>}, 200, "results")
       ELSE Respond("test_source", {<<"source", id>>}, 404, "Source not found")
    /\ UNCHANGED <<sources, topics, clients, source_topics, client_topics>>

\* DELETE /api/sources/{source_id}
DeleteSource(id) ==
    /\ sources' = { r \in sources : r.id # id }
    /\ source_topics' = { p \in source_topics : p[1] # id }
    /\ Respond("delete_source", {<<"source", id>>}, 200, "")
    /\ UNCHANGED <<topics, clients, client_topics>>

\* GET /api/sources/{source_id}/config
GetSourceConfig(id) ==
    /\ Respond("get_source_config", {<<"source", id>>}, 200,
               IF Exists(<<"source", id>>) THEN "config" ELSE "no config")
    /\ UNCHANGED <<sources, topics, clients, source_topics, client_topics>>

\* GET /api/sources/{source_id}/topics-form: the 404 is raised inside the
\* try and caught by `except Exception`, which answers with an alert.
GetTopicsForm(id) ==
    /\ Respond("get_topics_form", {<<"source", id>>}, 200,
               IF Exists(<<"source", id>>) THEN "form" ELSE "alert: 404: Source not found")
    /\ UNCHANGED <<sources, topics, clients, source_topics, client_topics>>

\* POST /api/sources/{source_id}/topics: the 404 is raised inside the try
\* and re-raised as a 500 by `except Exception`.
UpdateSourceTopics(id, topic_ids) ==
    /\ IF Exists(<<"source", id>>)
       THEN /\ source_topics' = SetSourceTopics(id, topic_ids)
            /\ Respond("update_source_topics", {<<"source", id>>}, 200, "source")
       ELSE /\ UNCHANGED source_topics
            /\ Respond("update_source_topics", {<<"source", id>>}, 500, "404: Source not found")
    /\ UNCHANGED <<sources, topics, clients, client_topics>>
\* GET /clients/{client_id}
PageClientDetail(id) ==
    /\ IF id \in clients THEN Respond("page_client_detail", {<<"client", id>>}, 200, "page")
       ELSE Respond("page_client_detail", {<<"client", id>>}, 404, "Client not found")
    /\ UNCHANGED <<sources, topics, clients, source_topics, client_topics>>

\* open(QUEUE_FILE, "a") and f.write(json.dumps(task) + "\n") for the task
\* {"task_type": task_type, "payload": payload}, payload already dumped, and
\* the handler's response: 200 when the write succeeded, 500 when it raised.
Enqueue(op, refs, task_type, payload, write_ok) ==
    /\ Len(QueueLines(job_queue, 1, "")) < MaxJobs
    /\ request' = [op |-> op, refs |-> refs]
    /\ IF write_ok
       THEN /\ job_queue' = job_queue \o <<"{\"task_type\": ">> \o JsonString(<<task_type>>)
                                      \o <<", \"payload\": ">> \o payload \o <<"}", "\n">>
            /\ response' = [status |-> 200, says |-> "queued"]
       ELSE /\ UNCHANGED job_queue
            /\ response' = [status |-> 500, says |-> "queue write failed"]
    /\ UNCHANGED <<domVars, scrapeVars, listVars, tableVars, exportVars, aiVars, crawlVars>>

\* POST /api/clients/{client_id}/collect
CollectForClient(id, write_ok) ==
    /\ IF id \in clients
       THEN Enqueue("collect_for_client", {<<"client", id>>}, "collect_intelligence", IntToStr(id), write_ok)
       ELSE Respond("collect_for_client", {<<"client", id>>}, 404, "Client not found")
    /\ UNCHANGED <<sources, topics, clients, source_topics, client_topics>>

\* POST /api/sources/ai_suggest
ApiAiSuggest(url, write_ok) ==
    /\ IF Strip(url) # <<>>
       THEN Enqueue("ai_suggest", {}, "create_recipe", JsonString(Strip(url)), write_ok)
       ELSE Respond("ai_suggest", {}, 400, "URL empty")
    /\ UNCHANGED <<sources, topics, clients, source_topics, client_topics>>

\* DELETE /api/clients/{client_id}
DeleteClient(id) ==
    /\ IF id \in clients
       THEN /\ clients' = clients \ {id}
            /\ client_topics' = { p \in client_topics : p[1] # id }
            /\ Respond("delete_client", {<<"client", id>>}, 200, "")
       ELSE /\ UNCHANGED <<clients, client_topics>>
            /\ Respond("delete_client", {<<"client", id>>}, 404, "Client not found")
    /\ UNCHANGED <<sources, topics, source_topics>>

\* GET /api/clients/{client_id}/subscriptions: the 404 is raised inside the
\* try and answered as a 500 by `except Exception`.
GetClientSubscriptions(id) ==
    /\ IF id \in clients THEN Respond("get_client_subscriptions", {<<"client", id>>}, 200, "subscriptions")
       ELSE Respond("get_client_subscriptions", {<<"client", id>>}, 500, "404: Client not found")
    /\ UNCHANGED <<sources, topics, clients, source_topics, client_topics>>

\* POST /api/clients/{client_id}/subscriptions: assign_topic_to_client, then
\* the answer of api_get_client_subscriptions.
AddSubscription(cid, tid) ==
    /\ client_topics' = IF cid \in clients /\ tid \in topics
                        THEN client_topics \cup {<<cid, tid>>} ELSE client_topics
    /\ IF cid \in clients
       THEN Respond("add_subscription", {<<"client", cid>>, <<"topic", tid>>}, 200, "subscriptions")
       ELSE Respond("add_subscription", {<<"client", cid>>, <<"topic", tid>>}, 500, "404: Client not found")
    /\ UNCHANGED <<sources, topics, clients, source_topics>>

\* DELETE /api/clients/{client_id}/topics/{topic_id}
RemoveSubscription(cid, tid) ==
    /\ client_topics' = client_topics \ {<<cid, tid>>}
    /\ Respond("remove_subscription", {<<"client", cid>>, <<"topic", tid>>}, 200, "")
    /\ UNCHANGED <<sources, topics, clients, source_topics>>

\* GET /topics/{topic_id}/edit
PageEditTopic(id) ==
    /\ IF id \in topics THEN Respond("page_edit_topic", {<<"topic", id>>}, 200, "page")
       ELSE Respond("page_edit_topic", {<<"topic", id>>}, 404, "Topic not found")
    /\ UNCHANGED <<sources, topics, clients, source_topics, client_topics>>

\* POST /api/topics/{topic_id}/edit: update_topic returns None for a missing
\* topic and the endpoint answers with the success alert either way.
UpdateTopic(id) ==
    /\ Respond("update_topic", {<<"topic", id>>}, 200, "alert-success")
    /\ UNCHANGED <<sources, topics, clients, source_topics, client_topics>>

\* DELETE /api/topics/{topic_id}
DeleteTopic(id) ==
    /\ topics' = topics \ {id}
    /\ source_topics' = { p \in source_topics : p[2] # id }
    /\ client_topics' = { p \in client_topics : p[2] # id }
    /\ Respond("delete_topic", {<<"topic", id>>}, 200, "")
    /\ UNCHANGED <<sources, clients>>

NextCrud ==
    \/ \E form \in SaveForms : SaveSource(form)
    \/ \E id \in Ids : TestSource(id)
    \/ \E id \in Ids : DeleteSource(id)
    \/ \E id \in Ids : GetSourceConfig(id)
    \/ \E id \in Ids : GetTopicsForm(id)
    \/ \E id \in Ids, topic_ids \in {<<>>, <<1>>} : UpdateSourceTopics(id, topic_ids)
    \/ \E id \in Ids : PageClientDetail(id)
    \/ \E id \in Ids, write_ok \in BOOLEAN : CollectForClient(id, write_ok)
    \/ \E id \in Ids : DeleteClient(id)
    \/ \E id \in Ids : GetClientSubscriptions(id)
    \/ \E cid \in Ids, tid \in Ids : AddSubscription(cid, tid)
    \/ \E cid \in Ids, tid \in Ids : RemoveSubscription(cid, tid)
    \/ \E id \in Ids : PageEditTopic(id)
    \/ \E id \in Ids : UpdateTopic(id)
    \/ \E id \in Ids : DeleteTopic(id)

SpecCrud == InitCrud /\ [][NextCrud]_vars

\* C4: saving a source configuration without a source id for a domain that
\* is already stored succeeds and leaves exactly one Source row for that
\* domain, carrying the new recipe.
C4_UpsertByDomain ==
    [][ \A form \in SaveForms :
          (/\ form.source_id = 0
           /\ \E r \in sources : r.domain = ParseDomain(form.domain)
           /\ SaveSource(form))
          => /\ response'.status = 200
             /\ Cardinality({ r \in sources' : r.domain = ParseDomain(form.domain) }) = 1
             /\ \A r \in sources' : r.domain = ParseDomain(form.domain)
                    => r.recipe_json = RecipeData(form, ParseDomain(form.domain)) ]_vars

\* C9: every client, source and topic endpoint given the id of a client,
\* source or topic that does not exist answers 404 (a request turned down
\* as malformed, with a 400, aside).
C9_MissingIs404 ==
    [][ ((\E ref \in request'.refs : ~Exists(ref)) /\ response'.status # 400)
            => response'.status = 404 ]_vars

\* The endpoints that submit jobs, and the deletion of clients beside them.
NextQueue ==
    \/ \E id \in Ids, write_ok \in BOOLEAN : CollectForClient(id, write_ok)
    \/ \E url \in UrlInputs, write_ok \in BOOLEAN : ApiAiSuggest(url, write_ok)
    \/ \E id \in Ids : DeleteClient(id)

SpecQueue == InitCrud /\ [][NextQueue]_vars

\* C17: a job submission that is accepted (collect-intelligence for a client
\* that exists, create-recipe for a URL that is not empty after stripping,
\* the write to the file succeeding) adds exactly one line to the queue file,
\* the JSON object {"task_type": ..., "payload": ...} with the client id as
\* a number or the stripped URL as a string, and leaves the earlier lines as
\* they were; a submission that is turned down (unknown client, empty URL)
\* or whose write fails leaves the file as it was.
C17_OneLinePerJob ==
    [][ /\ \A id \in Ids, write_ok \in BOOLEAN :
             CollectForClient(id, write_ok) =>
               IF id \in clients /\ write_ok
               THEN /\ response'.status = 200
                    /\ QueueLines(job_queue', 1, "")
                         = Append(QueueLines(job_queue, 1, ""),
                                  "{\"task_type\": \"collect_intelligence\", \"payload\": "
                                    \o QueueLines(IntToStr(id), 1, "")[1] \o "}")
               ELSE /\ response'.status # 200
                    /\ job_queue' = job_queue
        /\ \A url \in UrlInputs, write_ok \in BOOLEAN :
             ApiAiSuggest(url, write_ok) =>
               IF Strip(url) # <<>> /\ write_ok
               THEN /\ response'.status = 200
                    /\ Len(QueueLines(job_queue', 1, "")) = Len(QueueLines(job_queue, 1, "")) + 1
                    /\ SubSeq(QueueLines(job_queue', 1, ""), 1, Len(QueueLines(job_queue, 1, "")))
                         = QueueLines(job_queue, 1, "")
                    /\ QueueLines(job_queue', 1, "")[Len(QueueLines(job_queue', 1, ""))]
                         = QueueLines(<<"{\"task_type\": \"create_recipe\", \"payload\": ">>
                                        \o JsonString(Strip(url)) \o <<"}">>, 1, "")[1]
               ELSE /\ response'.status # 200
                    /\ job_queue' = job_queue
      ]_vars

\* The queue file holds a collect job followed by the job of a URL that has
\* a line feed inside it.
C17_Witness ==
    /\ Len(QueueLines(job_queue, 1, "")) = 2
    /\ QueueLines(job_queue, 1, "")[1] = "{\"task_type\": \"collect_intelligence\", \"payload\": 1}"
    /\ QueueLines(job_queue, 1, "")[2] = "{\"task_type\": \"create_recipe\", \"payload\": \"u\\nv\"}"
    /\ request.op = "ai_suggest"
    /\ response.status = 200

(***************************************************************************)
(*                    THE INTELLIGENCE TABLES                              *)
(* A row of intelligence holds the columns the endpoints below read or     *)
(* write; score_dimensions is JSON text or NULL; news_time is a day number *)
(* or NULL; ai_score is kept in tenths.                                    *)
(***************************************************************************)

\* The most intelligence rows a table starts with.
MaxIntel == 2

\* SQL NULL in an integer column and in a text column.
NoTime  == -1
SqlNull == "NULL"

\* The five scoring dimensions, in the order the analysis lists them (the
\* names format_score_details accepts besides the Chinese ones).
DimNames == <<"strategic_relevance", "industry_impact", "timeliness_urgency",
              "business_opportunity_risk", "actionability">>

\* A score-details mapping giving every dimension the score n and a reason
\* that is a string (rtype "str") or null; a JSON value is its type and content.
Scores(n, rtype) ==
    [d \in { DimNames[i] : i \in 1..Len(DimNames) } |->
        [score |-> n, reason |-> [type |-> rtype, val |-> IF rtype = "str" THEN "r" ELSE ""]]]

NoScores == [d \in {} |-> 0]

\* A number as json.dumps writes it.
NumText(n) ==
    CASE n = 0 -> "0" [] n = 1 -> "1" [] n = 2 -> "2" [] n = 3 -> "3" [] n = 4 -> "4" [] n = 5 -> "5"
      [] n = 6 -> "6" [] n = 7 -> "7" [] n = 8 -> "8" [] n = 9 -> "9" [] n = 10 -> "10"

\* json.dumps(scores, ensure_ascii=False) for a mapping that holds the five
\* dimensions or none of them, and after them the is_competitor flag or not.
JsonDumps(scores) ==
    LET dim(i) == "\"" \o DimNames[i] \o "\": {\"score\": " \o NumText(scores[DimNames[i]].score)
                  \o ", \"reason\": "
                  \o (IF scores[DimNames[i]].reason.type = "str" THEN "\"r\"" ELSE "null") \o "}"
        dims   == IF DimNames[1] \in DOMAIN scores
                  THEN dim(1) \o ", " \o dim(2) \o ", " \o dim(3) \o ", " \o dim(4) \o ", " \o dim(5)
                  ELSE ""
        flag   == IF "is_competitor" \in DOMAIN scores
                  THEN (IF dims = "" THEN "" ELSE ", ") \o "\"is_competitor\": "
                       \o (IF scores["is_competitor"] THEN "true" ELSE "false")
                  ELSE ""
    IN  "{" \o dims \o flag \o "}"

\* The mappings whose JSON text a row's score_dimensions holds in the model.
JsonValues ==
    LET plain == { NoScores, Scores(0, "str"), Scores(6, "str"), Scores(8, "str"), Scores(8, "null") }
    IN  plain \cup { v @@ ("is_competitor" :> b) : v \in plain, b \in BOOLEAN }

\* What score_dimensions can hold: NULL, the empty string, or JSON text.
DimTexts == { SqlNull, "" } \cup { JsonDumps(v) : v \in JsonValues }

\* json.loads(text) for a JSON text of DimTexts.
JsonLoads(text) == CHOOSE v \in JsonValues : JsonDumps(v) = text

IntelRow(id, title, news_time, quality, dims) ==
    [id |-> id, title |-> title, topic |-> "", summary |-> "", news_time |-> news_time,
     quality_status |-> quality, ai_score |-> 0, score_dimensions |-> dims]

(***************************************************************************)
(*                    EXPORT                                               *)
(* export_intelligence with export_as_json and format_score_details.       *)
(***************************************************************************)

\* The intelligence_ids parameter, split at its commas; <<>> is an absent
\* or empty parameter.
IdLists == { <<>>, << <<" ">> >>, << <<"1">> >>, << <<"1">>, <<" ", "2">> >>,
             << <<"2">>, <<"1">>, <<"2">>, <<>> >> }

ExportRequests ==
    [ format : {"json", "csv", "xml"}, export_scope : {"selected", "filtered", "all"},
      intelligence_ids : IdLists, quality : {"", "approved"} ]

\* [int(id.strip()) for id in intelligence_ids.split(',') if id.strip()]
ParseIds(pieces) ==
    LET kept == SelectSeq(pieces, LAMBDA piece : Strip(piece) # <<>>)
    IN  [i \in 1..Len(kept) |-> StrToInt(Strip(kept[i]))]

\* The LEFT JOIN of intelligence with intelligence_sources for the
\* intelligence rows with an id in ids: one joined row per source, or one with
\* a NULL url for an intelligence row without sources.
JoinRows(ids) ==
    UNION { LET urls == { x.url : x \in { y \in intel_sources : y.intelligence_id = r.id } }
            IN  { [id |-> r.id, score_dimensions |-> r.score_dimensions, url |-> u] :
                    u \in IF urls = {} THEN {SqlNull} ELSE urls }
            : r \in { x \in intelligence : x.id \in ids } }

\* result.fetchall() with LIMIT n: the joined rows as a list, cut at n.  The
\* order among the rows is the database's; the model takes one order.
RECURSIVE SeqOf(_)
SeqOf(S) == IF S = {} THEN <<>> ELSE LET x == CHOOSE y \in S : TRUE IN <<x>> \o SeqOf(S \ {x})

Fetch(S, limit) == SubSeq(SeqOf(S), 1, IF Cardinality(S) < limit THEN Cardinality(S) ELSE limit)

\* LIMIT of the filtered scope and of the all scope.
FilteredLimit == 10000
AllLimit      == 50000

\* `dimensions = {}; if row.score_dimensions: dimensions = json.loads(...)`
Dimensions(text) == IF text \in {SqlNull, ""} THEN NoScores ELSE JsonLoads(text)

\* The loop over rows that fills intelligence_dict: the first row of an id
\* makes its record, every row with a url adds a source to it.
RECURSIVE GroupRows(_, _)
GroupRows(rows, acc) ==
    IF rows = <<>> THEN acc
    ELSE LET row  == Head(rows)
             src  == IF row.url # SqlNull THEN <<row.url>> ELSE <<>>
             seen == \E i \in 1..Len(acc) : acc[i].id = row.id
         IN  GroupRows(Tail(rows),
                       IF seen
                       THEN [i \in 1..Len(acc) |->
                               IF acc[i].id = row.id THEN [acc[i] EXCEPT !.sources = @ \o src] ELSE acc[i]]
                       ELSE Append(acc, [id |-> row.id, dimensions |-> Dimensions(row.score_dimensions),
                                         sources |-> src]))

\* format_score_details raises AttributeError when a dimension's reason is
\* not a string (`.get('reason', '').strip()`).
FormatRaises(dimensions) ==
    \E d \in DOMAIN dimensions : dimensions[d].reason.type # "str"

\* The ids the filtered scope's WHERE clause selects.
FilteredIds(req) ==
    { r.id : r \in { x \in intelligence : req.quality = "" \/ x.quality_status = req.quality } }

\* export_intelligence.  `from sqlalchemy import text` stands in the
\* selected branch only, which makes text a local name of the function:
\* the other two branches reach text(query_sql) with the name unbound.
ExportError(why) == [status |-> 500, format |-> "", data |-> <<>>, detail |-> why]

Render(format, data) ==
    IF format \notin {"json", "csv"} THEN ExportError("400: unsupported format")
    ELSE IF \E i \in 1..Len(data) : FormatRaises(data[i].dimensions)
         THEN ExportError("AttributeError: 'NoneType' object has no attribute 'strip'")
    ELSE [status |-> 200, format |-> format, data |-> data, detail |-> ""]

TextBound(req) == req.export_scope = "selected" /\ req.intelligence_ids # <<>>

\* rows = result.fetchall() of the branch export_scope selects.
ExportRows(req) ==
    IF req.export_scope = "selected" /\ req.intelligence_ids # <<>>
    THEN SeqOf(JoinRows({ ParseIds(req.intelligence_ids)[i] : i \in 1..Len(ParseIds(req.intelligence_ids)) }))
    ELSE IF req.export_scope = "filtered" THEN Fetch(JoinRows(FilteredIds(req)), FilteredLimit)
    ELSE Fetch(JoinRows({ r.id : r \in intelligence }), AllLimit)

ExportResponse(req) ==
    IF req.export_scope = "selected" /\ req.intelligence_ids # <<>> /\ ParseIds(req.intelligence_ids) = <<>>
    THEN ExportError("400: no valid id")
    ELSE IF ~TextBound(req) THEN ExportError("UnboundLocalError: text")
    ELSE Render(req.format, GroupRows(ExportRows(req), <<>>))

InitExport ==
    /\ \E n \in 1..MaxIntel :
         \E quality \in [1..n -> {"pending", "approved"}],
            dims \in [1..n -> { SqlNull, "{}", JsonDumps(Scores(8, "str")), JsonDumps(Scores(8, "null")) }] :
           intelligence = { IntelRow(id, <<"t">>, NoTime, quality[id], dims[id]) : id \in 1..n }
    /\ intel_sources \in SUBSET { [intelligence_id |-> 1, url |-> "u1"], [intelligence_id |-> 1, url |-> "u2"] }
    /\ ex_request = [format |-> "", export_scope |-> "", intelligence_ids |-> <<>>, quality |-> ""]
    /\ ex_response = [status |-> 0, format |-> "", data |-> <<>>, detail |-> ""]
    /\ IdleDom /\ IdleScrape /\ IdleList /\ IdleCrud /\ IdleAi /\ IdleCrawl

\* GET /api/intelligence/export
ExportIntelligence(req) ==
    /\ ex_request' = req
    /\ ex_response' = ExportResponse(req)
    /\ UNCHANGED <<intelligence, intel_sources>>

NextExport ==
    \E req \in ExportRequests :
        ExportIntelligence(req) /\ UNCHANGED <<domVars, scrapeVars, listVars, crudVars, aiVars, crawlVars>>

SpecExport == InitExport /\ [][NextExport]_vars

\* C2: an export with export_scope=filtered returns exactly the records
\* matching the filter, one with export_scope=all returns all records, and
\* both produce an export file rather than an error.
C2_FilteredAndAllExport ==
    (ex_response.status # 0 /\ ex_request.export_scope \in {"filtered", "all"}
        /\ ex_request.format \in {"json", "csv"})
    => /\ ex_response.status = 200
       /\ { ex_response.data[i].id : i \in 1..Len(ex_response.data) }
            = IF ex_request.export_scope = "filtered" THEN FilteredIds(ex_request)
              ELSE { r.id : r \in intelligence }

\* C7: exporting existing ids as JSON with scope selected yields records
\* whose ids are exactly the requested ids, each once, and whose dimensions
\* are the mapping stored in the record's score_dimensions.
C7_SelectedJsonRoundTrip ==
    LET ids == { StrToInt(Strip(ex_request.intelligence_ids[i])) :
                   i \in { j \in 1..Len(ex_request.intelligence_ids) :
                             Strip(ex_request.intelligence_ids[j]) # <<>> } }
        data == ex_response.data
    IN  (/\ ex_response.status # 0 /\ ex_request.export_scope = "selected"
         /\ ex_request.format = "json" /\ ids # {}
         /\ \A id \in ids : \E r \in intelligence : r.id = id)
        => /\ ex_response.status = 200
           /\ { data[i].id : i \in 1..Len(data) } = ids
           /\ Len(data) = Cardinality(ids)
           /\ \A i \in 1..Len(data) : \A r \in intelligence :
                 r.id = data[i].id =>
                    data[i].dimensions = IF r.score_dimensions \in {SqlNull, ""} THEN NoScores
                                         ELSE JsonLoads(r.score_dimensions)

(***************************************************************************)
(*                    AI PROCESSING                                        *)
(* ai_process_single_intelligence (the "plain" variant),                   *)
(* ai_process_single_intelligence_with_date_extraction (the "dates"        *)
(* variant) and the batch endpoints that loop over them.                   *)
(***************************************************************************)

\* The most ids a batch request carries.
MaxBatch == 2

\* What asyncio.wait_for(analyze_article_with_deepseek(...)) can do: time
\* out, or return an analysis.  An "invalid" LLM answer makes
\* analyze_article_with_deepseek return its default analysis; a "valid" one
\* is returned as it is.
LlmOutcomes ==
    { [kind |-> "timeout"], [kind |-> "invalid"] }
    \cup [ kind : {"valid"}, topic : {"T1"}, summary : {"s1"},
           new_title : { <<"t">>, <<"t", "2">>, <<" ", "t", "2", " ">>, <<>> },
           scores : { Scores(6, "str"), Scores(8, "str") } ]

\* The default analysis of analyze_article_with_deepseek for an article.
DefaultAnalysis(title) ==
    [kind |-> "default", topic |-> "T0", summary |-> "analysis failed", new_title |-> title,
     scores |-> Scores(0, "str")]

\* The analysis the handler gets from an outcome that is not a timeout.
Analysis(llm, title) == IF llm.kind = "valid" THEN llm ELSE DefaultAnalysis(title)

\* A score-details mapping giving the five dimensions the scores v[1]..v[5].
ScoresOf(v) ==
    [d \in { DimNames[i] : i \in 1..Len(DimNames) } |->
        [score |-> v[CHOOSE i \in 1..Len(DimNames) : DimNames[i] = d],
         reason |-> [type |-> "str", val |-> "r"]]]

\* The score vectors of the analyses whose composite score is examined: the
\* example 8, 6, 10, 4, 2, equal scores, and vectors whose weighted sum ends
\* in 5 hundredths.
ScoreVectors ==
    { <<8, 6, 10, 4, 2>>, <<0, 0, 0, 0, 0>>, <<6, 6, 6, 6, 6>>, <<0, 0, 0, 1, 0>>, <<0, 0, 0, 0, 5>>,
      <<8, 6, 10, 4, 1>>, <<7, 8, 9, 6, 7>> }

\* The plain mean of the five scores, in tenths.
UnweightedMean(scores) ==
    2 * (scores[DimNames[1]].score + scores[DimNames[2]].score + scores[DimNames[3]].score
         + scores[DimNames[4]].score + scores[DimNames[5]].score)

\* round(total_score, 1) in tenths, total_score the double sum of score *
\* weight for the weights 0.30, 0.20, 0.20, 0.15, 0.15.  The sum is within
\* 1e-15 of hundredths / 100, so round gives hundredths / 10 when that is
\* whole; when the hundredths end in 5 the double lies just below or just
\* above the midpoint and round follows it: of the vectors here 0.75 and
\* 7.45 come out above (0.8, 7.5), and 0.15 and 6.35 below (0.1, 6.3).
Composite(scores) ==
    LET v          == [i \in 1..Len(DimNames) |-> scores[DimNames[i]].score]
        hundredths == 30 * v[1] + 20 * v[2] + 20 * v[3] + 15 * v[4] + 15 * v[5]
    IN  IF hundredths % 10 = 0 THEN hundredths \div 10
        ELSE IF v \in { <<0, 0, 0, 0, 5>>, <<7, 8, 9, 6, 7>> } THEN hundredths \div 10 + 1
        ELSE hundredths \div 10

\* The UPDATE of the plain variant: topic, summary, ai_score, score_dimensions.
UpdatePlain(row, a) ==
    [row EXCEPT !.topic = a.topic, !.summary = a.summary, !.ai_score = Composite(a.scores),
                !.score_dimensions = JsonDumps(a.scores)]

\* The title the dates variant stores: the analysis's new title, stripped,
\* when it is not blank and differs from the row's title.
NewTitle(old, a) ==
    IF Strip(a.new_title) # <<>> /\ a.new_title # old THEN Strip(a.new_title) ELSE old

\* The UPDATE of the dates variant: the same columns, and the title.
UpdateDates(row, a) == [UpdatePlain(row, a) EXCEPT !.title = NewTitle(@, a)]

\* In the dates variant json.dumps(scores) stands 17 lines above the
\* function's `import json`, which makes json a local name that is not
\* bound yet: the statement raises UnboundLocalError.
JsonBound(variant) == variant = "plain"

\* One call of ai_process_single_intelligence[_with_date_extraction]: the
\* result dictionary and the intelligence table it leaves.
ProcessSingle(variant, id, llm) ==
    IF ~\E r \in intelligence : r.id = id
    THEN [result |-> [id |-> id, status |-> "error", message |-> "not found"], table |-> intelligence]
    ELSE IF llm.kind = "timeout"
    THEN [result |-> [id |-> id, status |-> "error", message |-> "timeout"], table |-> intelligence]
    ELSE IF ~JsonBound(variant)
    THEN [result |-> [id |-> id, status |-> "error", message |-> "UnboundLocalError: json"],
          table |-> intelligence]
    ELSE [result |-> [id |-> id, status |-> "success", message |-> ""],
          table |-> { IF r.id # id THEN r
                      ELSE IF variant = "plain" THEN UpdatePlain(r, Analysis(llm, r.title))
                      ELSE UpdateDates(r, Analysis(llm, r.title)) : r \in intelligence }]

NoBatch == [phase |-> "idle", variant |-> "", ids |-> <<>>, idx |-> 0, results |-> <<>>, success_count |-> 0]

InitAi ==
    /\ \E n \in 1..MaxIntel :
         intelligence = { IntelRow(id, <<"t">>, NoTime, "pending", "{}") : id \in 1..n }
    /\ intel_sources = {}
    /\ ai_batch = NoBatch
    /\ ai_response = [status |-> "", message |-> "", results |-> <<>>, success_count |-> 0, total_count |-> 0]
    /\ ai_sessions = <<>>
    /\ llm_output = None /\ analysis = None
    /\ IdleDom /\ IdleScrape /\ IdleList /\ IdleCrud /\ IdleExport /\ IdleCrawl

\* The id lists a batch request can carry.
BatchIds == UNION { [1..n -> 1..MaxIntel] : n \in 0..MaxBatch }

\* One iteration of the loop of batch_ai_process ("plain") or of
\* batch_ai_process_with_date_extraction ("dates") on the batch b.
\*   plain: get_ai_processing_db and ai_db.close() are inside the loop's
\*          try, so an error of either reaches `except Exception`, which
\*          appends an error entry, also when the result was appended already.
\*   dates: process_single_intelligence_isolated catches both itself.
BatchStep(b, llm, open_ok, close_ok) ==
    LET id      == b.ids[b.idx]
        out     == ProcessSingle(b.variant, id, llm)
        failed  == [id |-> id, status |-> "error", message |-> "session error"]
        good    == IF out.result.status = "success" THEN 1 ELSE 0
        closing == IF close_ok THEN "closed" ELSE "close failed"
    IN  IF ~open_ok
        THEN [batch   |-> [b EXCEPT !.idx = @ + 1, !.results = Append(@, failed)],
              table   |-> intelligence,
              session |-> "not opened"]
        ELSE IF b.variant = "plain" /\ ~close_ok
        THEN [batch   |-> [b EXCEPT !.idx = @ + 1, !.results = Append(Append(@, out.result), failed),
                                    !.success_count = @ + good],
              table   |-> out.table,
              session |-> closing]
        ELSE [batch   |-> [b EXCEPT !.idx = @ + 1, !.results = Append(@, out.result),
                                    !.success_count = @ + good],
              table   |-> out.table,
              session |-> closing]

\* POST /batch-ai-process and /batch-ai-process-with-dates, up to the loop.
BatchStart(variant, ids) ==
    /\ ai_batch.phase # "running"
    /\ IF ids = <<>>
       THEN /\ ai_response' = [status |-> "error", message |-> "no ids", results |-> <<>>,
                               success_count |-> 0, total_count |-> 0]
            /\ ai_batch' = NoBatch
       ELSE /\ ai_batch' = [phase |-> "running", variant |-> variant, ids |-> ids, idx |-> 1,
                            results |-> <<>>, success_count |-> 0]
            /\ UNCHANGED ai_response
    /\ ai_sessions' = <<>>
    /\ UNCHANGED <<llm_output, analysis>>
    /\ UNCHANGED <<domVars, scrapeVars, listVars, crudVars, tableVars, exportVars, crawlVars>>

\* One loop iteration, given what it computes.
BatchStepped(step) ==
    /\ ai_batch' = step.batch
    /\ intelligence' = step.table
    /\ ai_sessions' = Append(ai_sessions, step.session)
    /\ UNCHANGED <<ai_response, intel_sources, llm_output, analysis>>
    /\ UNCHANGED <<domVars, scrapeVars, listVars, crudVars, exportVars, crawlVars>>

BatchItem(llm, open_ok, close_ok) ==
    /\ ai_batch.phase = "running"
    /\ ai_batch.idx <= Len(ai_batch.ids)
    /\ BatchStepped(BatchStep(ai_batch, llm, open_ok, close_ok))

\* The return after the loop.
BatchFinish ==
    /\ ai_batch.phase = "running"
    /\ ai_batch.idx > Len(ai_batch.ids)
    /\ ai_batch' = [ai_batch EXCEPT !.phase = "done"]
    /\ ai_response' = [status |-> "success", message |-> "batch done", results |-> ai_batch.results,
                       success_count |-> ai_batch.success_count, total_count |-> Len(ai_batch.ids)]
    /\ UNCHANGED <<ai_sessions, tableVars, llm_output, analysis>>
    /\ UNCHANGED <<domVars, scrapeVars, listVars, crudVars, exportVars, crawlVars>>

\* POST /{intelligence_id}/ai-process, given what the call computes: the
\* endpoint runs the plain variant on the request's session.
SingleDone(out) ==
    /\ ai_batch.phase # "running"
    /\ ai_batch' = NoBatch
    /\ intelligence' = out.table
    /\ ai_response' = [status |-> out.result.status, message |-> out.result.message,
                       results |-> <<out.result>>, success_count |-> 0, total_count |-> 0]
    /\ ai_sessions' = <<>>
    /\ UNCHANGED <<intel_sources, llm_output, analysis>>
    /\ UNCHANGED <<domVars, scrapeVars, listVars, crudVars, exportVars, crawlVars>>

AiProcessIntelligence(id, llm) == SingleDone(ProcessSingle("plain", id, llm))

NextAi ==
    \/ \E variant \in {"plain", "dates"}, ids \in BatchIds : BatchStart(variant, ids)
    \/ \E llm \in LlmOutcomes, open_ok \in BOOLEAN, close_ok \in BOOLEAN : BatchItem(llm, open_ok, close_ok)
    \/ BatchFinish
    \/ \E id \in 1..(MaxIntel + 1), llm \in LlmOutcomes : AiProcessIntelligence(id, llm)

SpecAi == InitAi /\ [][NextAi]_vars

\* The row of the table with this id (one exists).
RowOf(table, id) == CHOOSE r \in table : r.id = id

\* C3: whenever the LLM returns a valid analysis for an existing item within
\* the timeout, processing it (single ai-process, or one item of either
\* batch, with its session opened and closed without error) reports status
\* success and leaves the analysis's topic, summary, composite score and
\* score dimensions in the row, with the title replaced by the rewritten
\* title when that differs from the old one.
C3_ValidAnalysisStored ==
    [][ \A llm \in LlmOutcomes :
          llm.kind = "valid" =>
            /\ \A id \in { r.id : r \in intelligence } :
                 AiProcessIntelligence(id, llm) =>
                   /\ ai_response'.status = "success"
                   /\ RowOf(intelligence', id) = UpdateDates(RowOf(intelligence, id), llm)
            /\ (BatchItem(llm, TRUE, TRUE) /\ \E r \in intelligence : r.id = ai_batch.ids[ai_batch.idx]) =>
                   /\ ai_batch'.results[Len(ai_batch'.results)].status = "success"
                   /\ RowOf(intelligence', ai_batch.ids[ai_batch.idx])
                        = UpdateDates(RowOf(intelligence, ai_batch.ids[ai_batch.idx]), llm)
      ]_vars

\* C8: a finished batch run over a non-empty id list returns one entry per
\* requested id, in request order: total_count entries, none missing, none
\* duplicated, whatever successes, failures, timeouts and session errors
\* occurred.
C8_OneResultPerId ==
    ai_batch.phase = "done" =>
      /\ ai_response.total_count = Len(ai_batch.ids)
      /\ Len(ai_response.results) = ai_response.total_count
      /\ \A i \in 1..Len(ai_batch.ids) : ai_response.results[i].id = ai_batch.ids[i]

\* POST /{intelligence_id}/ai-process for analyses that validate and carry
\* the score vectors above.
NextScore ==
    \E id \in 1..MaxIntel, v \in ScoreVectors :
        AiProcessIntelligence(id, [kind |-> "valid", topic |-> "T1", summary |-> "s1",
                                   new_title |-> <<"t">>, scores |-> ScoresOf(v)])

SpecScore == InitAi /\ [][NextScore]_vars

\* C20: the composite score stored with an analysis is 0.30*s1 + 0.20*s2 +
\* 0.20*s3 + 0.15*s4 + 0.15*s5 rounded to one decimal place: in tenths, it
\* is within half a tenth of the weighted sum (equal to it when the sum has
\* one decimal, a neighbouring tenth when the sum ends in 5 hundredths), and
\* for the scores 8, 6, 10, 4, 2 it is 6.5.
C20_CompositeScore ==
    \A r \in intelligence, v \in ScoreVectors :
        r.score_dimensions = JsonDumps(ScoresOf(v))
        => /\ 10 * r.ai_score - 5 <= 30 * v[1] + 20 * v[2] + 20 * v[3] + 15 * v[4] + 15 * v[5]
           /\ 30 * v[1] + 20 * v[2] + 20 * v[3] + 15 * v[4] + 15 * v[5] <= 10 * r.ai_score + 5
           /\ (v = <<8, 6, 10, 4, 2>> => r.ai_score = 65)

\* A row holds the analysis with the scores 8, 6, 10, 4, 2 and the composite
\* score 6.5, another the analysis with the scores 8, 6, 10, 4, 1.
C20_Witness ==
    /\ \E r \in intelligence :
          r.score_dimensions = JsonDumps(ScoresOf(<<8, 6, 10, 4, 2>>)) /\ r.ai_score = 65
    /\ \E r \in intelligence : r.score_dimensions = JsonDumps(ScoresOf(<<8, 6, 10, 4, 1>>))
    /\ ai_response.status = "success"

(***************************************************************************)
(*                    ARTICLE ANALYSIS                                     *)
(* ai_service.analyze_article_with_deepseek: the LLM call, the parse of    *)
(* its output, _validate_analysis_result, and the result handed to the     *)
(* caller.  The keys of the LLM's JSON object are written in English:      *)
(* "topic", "category", "summary", "new_title", "details".                 *)
(***************************************************************************)

\* config.OFFICIAL_TOPICS and the keys of config.OFFICIAL_CATEGORIES.
OfficialTopics     == {"T0", "T1"}
OfficialCategories == {"C0", "C1"}

\* The keys _validate_analysis_result requires.
RequiredKeys == {"topic", "category", "summary", "new_title", "details"}

\* What the LLM call produces: nothing when no AI client is configured (the
\* function raises ConnectionError before it fetches anything), an exception
\* of the API call, or an object parsed from its text ({} when the text is no JSON object).  A value is
\* "absent" exactly when its key is.  A category that is a JSON array is
\* unhashable; the details are a full map of five scored dimensions, an
\* empty map, a value that is no map, a map that lacks one dimension, or a
\* map with a dimension that has no score.  fetch_error is the error message
\* of the content fetch that preceded the call.
LlmResults ==
    { [kind |-> "no_client", fetch_error |-> None] }
    \cup [ kind : {"api_error"}, fetch_error : {None, "fetch failed"} ]
    \cup { r \in [ kind : {"response"},
                   keys : { RequiredKeys, RequiredKeys \ {"topic"}, RequiredKeys \ {"details"}, {} },
                   topic : {"T1", "X", "absent"},
                   category : {"C0", "Y", "list", "absent"},
                   details : {"full", "empty", "notdict", "missing_dim", "no_score", "absent"},
                   fetch_error : {None, "fetch failed"} ] :
             /\ (r.topic = "absent") <=> ("topic" \notin r.keys)
             /\ (r.category = "absent") <=> ("category" \notin r.keys)
             /\ (r.details = "absent") <=> ("details" \notin r.keys) }

\* A validation that checks everything but the topic.
ValidateWithoutTopic(result) ==
    IF result.keys = {} THEN "false"
    ELSE IF ~ (RequiredKeys \subseteq result.keys) THEN "false"
    ELSE IF result.category = "list" THEN "TypeError"
    ELSE IF result.category \notin OfficialCategories THEN "false"
    ELSE IF result.details \in {"notdict", "empty"} THEN "false"
    ELSE IF result.details \in {"missing_dim", "no_score"} THEN "false"
    ELSE "true"

\* _validate_analysis_result, in the order of its tests: "true", "false", or
\* the TypeError of looking an unhashable category up in a dict.
ValidateAnalysisResult(result) ==
    IF result.keys = {} THEN "false"
    ELSE IF ~ (RequiredKeys \subseteq result.keys) THEN "false"
    ELSE IF result.topic \notin OfficialTopics THEN "false"
    ELSE IF result.category = "list" THEN "TypeError"
    ELSE IF result.category \notin OfficialCategories THEN "false"
    ELSE IF result.details \in {"notdict", "empty"} THEN "false"
    ELSE IF result.details \in {"missing_dim", "no_score"} THEN "false"
    ELSE "true"

\* What the caller of analyze_article_with_deepseek gets for an LLM outcome:
\* the LLM's analysis when it validates, the default of the else branch when
\* it does not, the default of the except branch when the call or the
\* validation raised, and the ConnectionError when there is no AI client.
AnalysisFor(out) ==
    LET valid == IF out.kind = "response" THEN ValidateAnalysisResult(out) ELSE out.kind
    IN  CASE valid = "no_client" ->
               [done |-> TRUE, raised |-> TRUE, topic |-> "", category |-> "", summary |-> "",
                scores |-> NoScores, fetch_error |-> None]
          [] valid = "true" ->
               [done |-> TRUE, raised |-> FALSE, topic |-> out.topic, category |-> out.category,
                summary |-> "s1", scores |-> Scores(8, "str"), fetch_error |-> out.fetch_error]
          [] valid = "false" ->
               [done |-> TRUE, raised |-> FALSE, topic |-> "T0", category |-> "C0",
                summary |-> "the title", scores |-> Scores(0, "str"),
                fetch_error |-> "validation failed"]
          [] OTHER ->
               [done |-> TRUE, raised |-> FALSE, topic |-> "T0", category |-> "C0",
                summary |-> "analysis failed", scores |-> Scores(0, "str"),
                fetch_error |-> "API call failed"]

InitAnalysis ==
    /\ llm_output \in LlmResults
    /\ analysis = [done |-> FALSE, raised |-> FALSE, topic |-> "", category |-> "", summary |-> "",
                   scores |-> NoScores, fetch_error |-> None]
    /\ ai_batch = None /\ ai_response = None /\ ai_sessions = <<>>
    /\ IdleDom /\ IdleScrape /\ IdleList /\ IdleCrud /\ IdleTables /\ IdleExport /\ IdleCrawl

\* The part of analyze_article_with_deepseek from the LLM call to the return.
AnalyzeArticleWithDeepseek ==
    /\ ~ analysis.done
    /\ analysis' = AnalysisFor(llm_output)
    /\ UNCHANGED <<ai_batch, ai_response, ai_sessions, llm_output>>
    /\ UNCHANGED <<domVars, scrapeVars, listVars, crudVars, tableVars, exportVars, crawlVars>>

NextAnalysis == AnalyzeArticleWithDeepseek

SpecAnalysis == InitAnalysis /\ [][NextAnalysis]_vars

\* C16: an LLM response whose topic is not in the official topics list is
\* rejected by validation: the caller gets the default result, all five
\* scores zero, with the validation-failure marker in its metadata, and no
\* exception reaches the caller.
C16_UnknownTopicRejected ==
    ( /\ analysis.done
      /\ llm_output.kind = "response"
      /\ "topic" \in llm_output.keys
      /\ llm_output.topic \notin OfficialTopics )
    => /\ ~ analysis.raised
       /\ analysis.scores = Scores(0, "str")
       /\ analysis.fetch_error = "validation failed"

\* An otherwise valid response with an unknown topic has been analysed.
C16_Witness ==
    /\ analysis.done
    /\ llm_output.kind = "response"
    /\ llm_output.keys = RequiredKeys
    /\ llm_output.topic = "X"
    /\ llm_output.category = "C0"
    /\ llm_output.details = "full"
    /\ llm_output.fetch_error = None
    /\ analysis.fetch_error = "validation failed"

(***************************************************************************)
(*                    CRAWL                                                *)
(* start_crawling ("plain") and start_crawling_with_date_extraction        *)
(* ("dates"): the loop over the items scraped from one source of one       *)
(* topic, and the commit after it.                                         *)
(***************************************************************************)

\* The most items one scrape returns.
MaxItems == 2

\* days_back, the form field's default.
DaysBack == 7

\* datetime.now() as a day number; every crawl of a behaviour runs that day.
Today == 30

\* start_date - timedelta(days=7)
Cutoff == (Today - DaysBack) - 7

\* item.date as the scraper returns it: no text (or text that dateutil cannot
\* parse, which the code turns into None as well), text that parses to a
\* naive datetime of start_date - 6 days or of the day before
\* start_date - 7 days, text with a timezone (parser.parse returns an aware
\* datetime) of start_date - 6 days.
ItemDates ==
    { [kind |-> "none", day |-> 0], [kind |-> "naive", day |-> Cutoff + 1],
      [kind |-> "naive", day |-> Cutoff - 1], [kind |-> "aware", day |-> Cutoff + 1] }

\* The scraped items: Scraper keeps one item per URL and per title.
Items == [ title : { <<"t">>, <<"u">> }, url : {"u1", "u2"}, date : ItemDates ]

ItemLists ==
    { l \in UNION { [1..n -> Items] : n \in 1..MaxItems } :
        \A i, j \in 1..Len(l) : i # j => (l[i].title # l[j].title /\ l[i].url # l[j].url) }

\* What extract_date_from_url can give for an item's link: nothing, or a day
\* (here start_date - 6 days).
Extracted == { NoTime, Cutoff + 1 }

\* news_time after parsing, and after the dates variant's extraction from
\* the link when the list page gave no date.
ParsedDate(variant, item, extracted) ==
    IF item.date.kind \in {"naive", "aware"} THEN item.date
    ELSE IF variant = "dates" /\ extracted # NoTime THEN [kind |-> "naive", day |-> extracted]
    ELSE [kind |-> "none", day |-> 0]

\* lastrowid of an INSERT into a table.
NextRowId(table) == IF table = {} THEN 1 ELSE 1 + CHOOSE m \in { r.id : r \in table } : \A r \in table : r.id <= m

\* INSERT INTO intelligence_sources for this row and item.
WithSource(srcs, id, item) ==
    srcs \cup { [id |-> NextRowId(srcs), intelligence_id |-> id, url |-> item.url] }

\* One iteration of the item loop for crawl locals c and the session's
\* tables.  Comparing an aware news_time with the naive start_date raises
\* TypeError, which the iteration's except turns into `continue`.
ItemStep(c, intel, srcs, extracted) ==
    LET item     == c.items[c.idx]
        date     == ParsedDate(c.variant, item, extracted)
        dated    == date.kind # "none"
        titled   == { r \in intel : r.title = item.title }
        existing == CHOOSE r \in titled : TRUE
        next     == [c EXCEPT !.idx = @ + 1]
    IN  IF date.kind = "aware"
        THEN [crawl |-> next, intel |-> intel, sources |-> srcs]
        ELSE IF dated /\ date.day < Cutoff
        THEN [crawl |-> [next EXCEPT !.out_of_range = @ + 1], intel |-> intel, sources |-> srcs]
        ELSE IF titled # {} /\ existing.news_time = NoTime /\ dated
        THEN [crawl   |-> [next EXCEPT !.updated = @ + 1],
              intel   |-> { IF r.id = existing.id THEN [r EXCEPT !.news_time = date.day, !.topic = "T"] ELSE r
                            : r \in intel },
              sources |-> IF \E x \in srcs : x.intelligence_id = existing.id /\ x.url = item.url
                          THEN srcs ELSE WithSource(srcs, existing.id, item)]
        ELSE IF titled # {}
        THEN [crawl |-> [next EXCEPT !.duplicate = @ + 1], intel |-> intel, sources |-> srcs]
        ELSE [crawl   |-> [next EXCEPT !.saved = @ + 1],
              intel   |-> intel \cup { [IntelRow(NextRowId(intel), item.title,
                                                 IF dated THEN date.day ELSE NoTime, "pending", "{}")
                                        EXCEPT !.topic = "T"] },
              sources |-> WithSource(srcs, NextRowId(intel), item)]

NoCrawl ==
    [phase |-> "idle", variant |-> "", items |-> <<>>, idx |-> 0,
     saved |-> 0, updated |-> 0, duplicate |-> 0, out_of_range |-> 0]

InitCrawl ==
    /\ intelligence = {}
    /\ intel_sources = {}
    /\ crawl = NoCrawl
    /\ tx_intel = {}
    /\ tx_sources = {}
    /\ articles = {} /\ dash = None
    /\ IdleDom /\ IdleScrape /\ IdleList /\ IdleCrud /\ IdleExport /\ IdleAi

\* POST /crawl and /crawl-with-dates up to the item loop: the scrape of the
\* source has returned these items.
StartCrawling(variant, items) ==
    /\ crawl.phase # "running"
    /\ crawl' = [NoCrawl EXCEPT !.phase = "running", !.variant = variant, !.items = items, !.idx = 1]
    /\ tx_intel' = intelligence
    /\ tx_sources' = intel_sources
    /\ UNCHANGED <<tableVars, articles, dash>>
    /\ UNCHANGED <<domVars, scrapeVars, listVars, crudVars, exportVars, aiVars>>

\* One iteration of the item loop, given what it computes.
CrawlStepped(step) ==
    /\ crawl' = step.crawl
    /\ tx_intel' = step.intel
    /\ tx_sources' = step.sources
    /\ UNCHANGED <<tableVars, articles, dash>>
    /\ UNCHANGED <<domVars, scrapeVars, listVars, crudVars, exportVars, aiVars>>

CrawlItem(extracted) ==
    /\ crawl.phase = "running"
    /\ crawl.idx <= Len(crawl.items)
    /\ CrawlStepped(ItemStep(crawl, tx_intel, tx_sources, extracted))

\* After the loop: db.commit() when something was saved or updated.
CrawlCommit ==
    /\ crawl.phase = "running"
    /\ crawl.idx > Len(crawl.items)
    /\ crawl' = [crawl EXCEPT !.phase = "done"]
    /\ IF crawl.saved > 0 \/ crawl.updated > 0
       THEN intelligence' = tx_intel /\ intel_sources' = tx_sources
       ELSE UNCHANGED tableVars
    /\ UNCHANGED <<tx_intel, tx_sources, articles, dash>>
    /\ UNCHANGED <<domVars, scrapeVars, listVars, crudVars, exportVars, aiVars>>

NextCrawl ==
    \/ \E variant \in {"plain", "dates"}, items \in ItemLists : StartCrawling(variant, items)
    \/ \E extracted \in Extracted : CrawlItem(extracted)
    \/ CrawlCommit

SpecCrawl == InitCrawl /\ [][NextCrawl]_vars

\* C1: when a crawl reaches an item whose title is already stored without a
\* date, and the item carries a date inside the crawl's window, the
\* iteration leaves exactly one row with that title, its news_time
\* populated, and exactly one source row of it with the item's URL.
C1_RecrawlFillsDate ==
    [][ \A extracted \in Extracted :
          ( /\ CrawlItem(extracted)
            /\ crawl.items[crawl.idx].date.kind \in {"naive", "aware"}
            /\ crawl.items[crawl.idx].date.day >= Cutoff
            /\ \E r \in tx_intel : r.title = crawl.items[crawl.idx].title /\ r.news_time = NoTime )
          => /\ Cardinality({ r \in tx_intel' : r.title = crawl.items[crawl.idx].title }) = 1
             /\ \A r \in tx_intel' : r.title = crawl.items[crawl.idx].title =>
                  /\ r.news_time # NoTime
                  /\ Cardinality({ x \in tx_sources' : x.intelligence_id = r.id
                                                       /\ x.url = crawl.items[crawl.idx].url }) = 1
      ]_vars

\* C15: an item whose parsed date is older than start_date - 7 days is
\* excluded from saving (the tables stay as they were), and an item dated
\* start_date - 6 days is retained: it reaches the title lookup and is
\* saved, merged into the stored row, or counted as its duplicate.
C15_DateWindow ==
    [][ \A extracted \in Extracted :
          (CrawlItem(extracted) /\ ParsedDate(crawl.variant, crawl.items[crawl.idx], extracted).kind # "none")
          => /\ ParsedDate(crawl.variant, crawl.items[crawl.idx], extracted).day < Cutoff
                  => (tx_intel' = tx_intel /\ tx_sources' = tx_sources /\ crawl'.saved = crawl.saved
                      /\ crawl'.updated = crawl.updated)
             /\ ParsedDate(crawl.variant, crawl.items[crawl.idx], extracted).day = Cutoff + 1
                  => crawl'.saved + crawl'.updated + crawl'.duplicate
                       = crawl.saved + crawl.updated + crawl.duplicate + 1
      ]_vars

(***************************************************************************)
(*                    COMPETITOR MARKER                                    *)
(* toggle_competitor_status: the is_competitor flag inside the JSON text   *)
(* of score_dimensions.                                                    *)
(***************************************************************************)

\* The body of toggle_competitor_status for a row's score_dimensions.  The
\* function's only `import json` stands inside `if intelligence.score_dimensions:`,
\* so for NULL and for the empty string json is an unbound local when
\* json.dumps is reached, and the handler's except answers status error.
Toggled(text) ==
    IF text \in {SqlNull, ""}
    THEN [status |-> "error", text |-> text, is_competitor |-> FALSE]
    ELSE LET old  == JsonLoads(text)
             flag == IF "is_competitor" \in DOMAIN old THEN old["is_competitor"] ELSE FALSE
         IN  [status |-> "success",
              text |-> JsonDumps([k \in DOMAIN old \cup {"is_competitor"} |->
                                    IF k = "is_competitor" THEN ~flag ELSE old[k]]),
              is_competitor |-> ~flag]

InitToggle ==
    /\ \E n \in 1..MaxIntel :
         \E dims \in [1..n -> { SqlNull, "", "{}", JsonDumps(Scores(8, "str")),
                                JsonDumps(NoScores @@ ("is_competitor" :> TRUE)),
                                JsonDumps(Scores(8, "str") @@ ("is_competitor" :> FALSE)) }] :
           intelligence = { IntelRow(id, <<"t">>, NoTime, "pending", dims[id]) : id \in 1..n }
    /\ intel_sources = {}
    /\ sources = {} /\ topics = {} /\ clients = {} /\ source_topics = {} /\ client_topics = {}
    /\ job_queue = <<>>
    /\ request = [op |-> "none", refs |-> {}]
    /\ response = [status |-> "", is_competitor |-> FALSE]
    /\ IdleDom /\ IdleScrape /\ IdleList /\ IdleExport /\ IdleAi /\ IdleCrawl

\* POST /api/intelligence/{id}/toggle-competitor.  The 404 for a missing
\* record is raised inside the try and comes back as status error.
ToggleCompetitorStatus(id) ==
    /\ request' = [op |-> "toggle_competitor_status", refs |-> {id}]
    /\ IF \E r \in intelligence : r.id = id
       THEN /\ intelligence' = { IF r.id = id THEN [r EXCEPT !.score_dimensions = Toggled(@).text] ELSE r
                                 : r \in intelligence }
            /\ response' = [status |-> Toggled(RowOf(intelligence, id).score_dimensions).status,
                            is_competitor |-> Toggled(RowOf(intelligence, id).score_dimensions).is_competitor]
       ELSE /\ response' = [status |-> "error", is_competitor |-> FALSE]
            /\ UNCHANGED intelligence
    /\ UNCHANGED <<intel_sources, sources, topics, clients, source_topics, client_topics, job_queue>>
    /\ UNCHANGED <<domVars, scrapeVars, listVars, exportVars, aiVars, crawlVars>>

NextToggle == \E id \in 1..(MaxIntel + 1) : ToggleCompetitorStatus(id)

SpecToggle == InitToggle /\ [][NextToggle]_vars

\* C14: toggling the competitor marker of an existing record succeeds and
\* inverts the is_competitor flag inside score_dimensions (an absent flag,
\* and an empty or NULL score_dimensions, count as false), every other key
\* keeping its value.
C14_ToggleInvertsFlag ==
    [][ \A id \in { r.id : r \in intelligence } :
          ToggleCompetitorStatus(id) =>
            /\ response'.status = "success"
            /\ RowOf(intelligence', id).score_dimensions \notin {SqlNull, ""}
            /\ JsonLoads(RowOf(intelligence', id).score_dimensions)
                 = ( ("is_competitor" :>
                        ~( /\ RowOf(intelligence, id).score_dimensions \notin {SqlNull, ""}
                           /\ "is_competitor" \in DOMAIN JsonLoads(RowOf(intelligence, id).score_dimensions)
                           /\ JsonLoads(RowOf(intelligence, id).score_dimensions)["is_competitor"] ))
                     @@ (IF RowOf(intelligence, id).score_dimensions \in {SqlNull, ""} THEN NoScores
                         ELSE JsonLoads(RowOf(intelligence, id).score_dimensions)) )
      ]_vars

(***************************************************************************)
(*                    DASHBOARD CRAWL                                      *)
(* logic.crawl_all_sites: the loop over the items extracted from one page  *)
(* and the commit after it; a run is a sequence of such pages.  A URL is a *)
(* sequence of pieces, the scheme and host one piece.                      *)
(***************************************************************************)

\* The items a page yields: the href as extracted (absolute, relative or
\* empty), a title, and what parse_date_smart makes of the date text: None
\* (kept, like a naive datetime after the cutoff), a naive datetime before
\* the cutoff, or an aware one.
DashItems ==
    [ url : { <<"https://x.com", "/a">>, <<"/a">>, <<"https://x.com", "/b">> }, title : {"t"},
      date : {"none", "old", "aware"} ]
    \cup { [url |-> <<>>, title |-> "t", date |-> "none"],
           [url |-> <<"/a">>, title |-> "", date |-> "none"] }

\* A lookup that never finds a row.
UrlNeverExists(rows, url) == FALSE

\* select(Article).where(Article.url == full_url) ... first(), as a truth value.
UrlExists(rows, url) == \E r \in rows : r.url = url

\* One iteration of `for item in items`, given the dash it leaves: urljoin
\* of a relative href onto the page's URL, the date filter (comparing an
\* aware datetime with the naive cutoff raises TypeError, which ends the run
\* and discards what the session has not committed), and the lookup that
\* precedes the insert.  The session autoflushes, so the lookup sees the rows
\* added earlier in the loop.
DashStep(d, item) ==
    LET full_url == IF Head(item.url) = "https://x.com" THEN item.url ELSE <<"https://x.com">> \o item.url
    IN  IF item.title = "" \/ item.url = <<>> THEN [d EXCEPT !.idx = @ + 1]
        ELSE IF item.date = "aware" THEN [d EXCEPT !.phase = "failed", !.items = <<>>, !.idx = 0, !.tx = {}]
        ELSE IF item.date = "old" THEN [d EXCEPT !.idx = @ + 1]
        ELSE IF UrlExists(d.tx, full_url)
        THEN [d EXCEPT !.idx = @ + 1, !.dup = @ + 1, !.total = @ + 1]
        ELSE [d EXCEPT !.idx = @ + 1, !.new = @ + 1, !.total = @ + 1,
                       !.tx = @ \cup {[id |-> NewId({ r.id : r \in d.tx }), url |-> full_url]}]

InitDash ==
    /\ articles = {}
    /\ dash = [phase |-> "idle", items |-> <<>>, idx |-> 0, tx |-> {}, new |-> 0, dup |-> 0, total |-> 0]
    /\ crawl = None /\ tx_intel = <<>> /\ tx_sources = <<>>
    /\ IdleDom /\ IdleScrape /\ IdleList /\ IdleCrud /\ IdleTables /\ IdleExport /\ IdleAi

\* A page of a run has been fetched and its items extracted.
DashPage(items) ==
    /\ dash.phase # "running"
    /\ dash' = [phase |-> "running", items |-> items, idx |-> 1, tx |-> articles,
                new |-> 0, dup |-> 0, total |-> 0]
    /\ UNCHANGED <<articles, crawl, tx_intel, tx_sources>>
    /\ UNCHANGED <<domVars, scrapeVars, listVars, crudVars, tableVars, exportVars, aiVars>>

DashItem ==
    /\ dash.phase = "running"
    /\ dash.idx <= Len(dash.items)
    /\ dash' = DashStep(dash, dash.items[dash.idx])
    /\ UNCHANGED <<articles, crawl, tx_intel, tx_sources>>
    /\ UNCHANGED <<domVars, scrapeVars, listVars, crudVars, tableVars, exportVars, aiVars>>

\* session.commit() after the loop.
DashCommit ==
    /\ dash.phase = "running"
    /\ dash.idx > Len(dash.items)
    /\ articles' = dash.tx
    /\ dash' = [dash EXCEPT !.phase = "done", !.items = <<>>, !.idx = 0]
    /\ UNCHANGED <<crawl, tx_intel, tx_sources>>
    /\ UNCHANGED <<domVars, scrapeVars, listVars, crudVars, tableVars, exportVars, aiVars>>

NextDash ==
    \/ \E items \in UNION { [1..n -> DashItems] : n \in 0..MaxItems } : DashPage(items)
    \/ DashItem
    \/ DashCommit

SpecDash == InitDash /\ [][NextDash]_vars

MaxListRows == 12

\* ORDER BY news_time ASC or DESC alone, as SQLite sorts it: NULL is the
\* smallest value.  Rows that compare equal come in either id order.
PlainBefore(a, b, desc, tie_desc) ==
    IF (a.news_time = NoTime) # (b.news_time = NoTime)
    THEN (IF desc THEN b.news_time = NoTime ELSE a.news_time = NoTime)
    ELSE IF a.news_time # b.news_time
    THEN (IF desc THEN a.news_time > b.news_time ELSE a.news_time < b.news_time)
    ELSE (IF tie_desc THEN a.id > b.id ELSE a.id < b.id)

\* ORDER BY news_time IS NULL, news_time ASC or DESC: row a comes before row
\* b.  Rows that compare equal come in either id order.
NullsLastBefore(a, b, desc, tie_desc) ==
    IF (a.news_time = NoTime) # (b.news_time = NoTime)
    THEN b.news_time = NoTime
    ELSE IF a.news_time # b.news_time
    THEN (IF desc THEN a.news_time > b.news_time ELSE a.news_time < b.news_time)
    ELSE (IF tie_desc THEN a.id > b.id ELSE a.id < b.id)

\* The rows the data query returns for request q: sorted by the order
\* clause, sort_by falling back to news_time when it is not a valid field,
\* then cut to LIMIT page_size OFFSET (page - 1) * page_size.
ListPage(rows, q, tie_desc) ==
    LET by_time      == q.sort_by \notin {"id", "title", "topic", "collect_time", "ai_score", "quality_status"}
        desc         == q.order = "desc"
        before(a, b) == IF by_time THEN NullsLastBefore(a, b, desc, tie_desc)
                        ELSE (IF desc THEN a.id > b.id ELSE a.id < b.id)
        sorted       == [ k \in 1..Cardinality(rows) |->
                            CHOOSE r \in rows : Cardinality({ x \in rows : before(x, r) }) = k - 1 ]
        offset       == (q.page - 1) * q.page_size
        last         == IF offset + q.page_size < Cardinality(rows) THEN offset + q.page_size
                        ELSE Cardinality(rows)
    IN  SubSeq(sorted, offset + 1, last)

\* A table whose news_time column repeats a pattern of three values, and a
\* request; order is the parameter after lower().
InitOrder ==
    /\ \E n \in 0..MaxListRows, pat \in [0..2 -> {NoTime, 1, 2}] :
         intelligence = { IntelRow(id, <<"t">>, pat[id % 3], "pending", "{}") : id \in 1..n }
    /\ intel_sources = {}
    /\ lq_params \in [ sort_by : {"news_time", "id", "bogus"}, order : {"desc", "asc", "up"},
                       page : {1, 2}, page_size : {10, 11} ]
    /\ lq_where = <<>>
    /\ lq_pc = "request"
    /\ lq_items = <<>>
    /\ IdleDom /\ IdleScrape /\ IdleCrud /\ IdleExport /\ IdleAi /\ IdleCrawl

\* GET /api/intelligence/list without filters.
ListIntelligence(tie_desc) ==
    /\ lq_pc = "request"
    /\ lq_items' = ListPage(intelligence, lq_params, tie_desc)
    /\ lq_pc' = "done"
    /\ UNCHANGED <<lq_params, lq_where>>
    /\ UNCHANGED <<domVars, scrapeVars, crudVars, tableVars, exportVars, aiVars, crawlVars>>

NextOrder == \E tie_desc \in BOOLEAN : ListIntelligence(tie_desc)

SpecOrder == InitOrder /\ [][NextOrder]_vars

\* C19: when the list is sorted by news_time, ascending or descending, every
\* row without a news_time has a position in the overall ordering after the
\* positions of all rows with one: on the returned page a row at overall
\* position p has a news_time exactly when p is at most the number of dated
\* rows in the table.
C19_NullTimesLast ==
    (lq_pc = "done" /\ lq_params.sort_by # "id")
    => \A i \in 1..Len(lq_items) :
         (lq_items[i].news_time # NoTime)
           <=> ((lq_params.page - 1) * lq_params.page_size + i
                  <= Cardinality({ r \in intelligence : r.news_time # NoTime }))

\* An ascending list by news_time whose second page shows a row without a
\* news_time, the table holding dated rows too.
C19_Witness ==
    /\ lq_pc = "done"
    /\ lq_params.sort_by = "news_time"
    /\ lq_params.order = "asc"
    /\ lq_params.page = 2
    /\ Len(lq_items) >= 1
    /\ lq_items[1].news_time = NoTime
    /\ \E r \in intelligence : r.news_time # NoTime

(***************************************************************************)
(*                    CONCURRENT CRAWLS                                    *)
(* Two start_crawling requests, each on its own session, at the grain of   *)
(* the statements of one loop iteration: the title lookup, the two         *)
(* INSERTs, and the commit after the loop.  Here crawl maps a request to   *)
(* its locals and to the rows its session has written and not committed.   *)
(* SQLite lets one session at a time hold uncommitted writes; a write of   *)
(* another session waits for it, or fails with "database is locked".       *)
(***************************************************************************)

\* Two requests whose scrapes returned these items, before their loops.
InitRace ==
    /\ intelligence = {}
    /\ intel_sources = {}
    /\ crawl \in [ 1..2 -> { [pc |-> "lookup", items |-> l, idx |-> 1, saved |-> 0, duplicate |-> 0,
                              intel |-> {}, sources |-> {}]
                             : l \in { x \in ItemLists : \A i \in 1..Len(x) : x[i].date.kind = "none" } } ]
    /\ tx_intel = {}
    /\ tx_sources = {}
    /\ articles = {} /\ dash = None
    /\ IdleDom /\ IdleScrape /\ IdleList /\ IdleCrud /\ IdleExport /\ IdleAi

\* A step of request r that leaves it with the locals c, the committed
\* tables becoming intel and srcs.
RaceStepped(r, c, intel, srcs) ==
    /\ crawl' = [crawl EXCEPT ![r] = c]
    /\ intelligence' = intel
    /\ intel_sources' = srcs
    /\ UNCHANGED <<tx_intel, tx_sources, articles, dash>>
    /\ UNCHANGED <<domVars, scrapeVars, listVars, crudVars, exportVars, aiVars>>

\* SELECT id, news_time FROM intelligence WHERE title = :title, which sees
\* the committed rows and the session's own: a hit counts a duplicate.
RaceLookup(r) ==
    /\ crawl[r].pc = "lookup"
    /\ crawl[r].idx <= Len(crawl[r].items)
    /\ RaceStepped(r,
                   IF \E x \in intelligence \cup crawl[r].intel : x.title = crawl[r].items[crawl[r].idx].title
                   THEN [crawl[r] EXCEPT !.idx = @ + 1, !.duplicate = @ + 1]
                   ELSE [crawl[r] EXCEPT !.pc = "insert"],
                   intelligence, intel_sources)

\* The INSERT into intelligence and the INSERT into intelligence_sources of
\* an item that the lookup did not find.  Outcome "ok": both succeed.
\* Outcome "source fails": the second raises after the first succeeded.
\* Outcome "locked": the first raises because the other session holds
\* uncommitted writes.  The iteration's except continues with the next item
\* and issues no rollback.
RaceInsert(r, outcome) ==
    /\ crawl[r].pc = "insert"
    /\ (outcome = "locked") <=> (crawl[3 - r].intel # {} \/ crawl[3 - r].sources # {})
    /\ RaceStepped(r,
                   [crawl[r] EXCEPT
                      !.pc = "lookup", !.idx = @ + 1,
                      !.saved = IF outcome = "ok" THEN @ + 1 ELSE @,
                      !.intel = IF outcome = "locked" THEN @
                                ELSE @ \cup { IntelRow(NextRowId(intelligence \cup crawl[r].intel),
                                                       crawl[r].items[crawl[r].idx].title, NoTime,
                                                       "pending", "{}") },
                      !.sources = IF outcome # "ok" THEN @
                                  ELSE WithSource(intel_sources \cup crawl[r].sources,
                                                  NextRowId(intelligence \cup crawl[r].intel),
                                                  crawl[r].items[crawl[r].idx]) \ intel_sources],
                   intelligence, intel_sources)

\* After the loop: db.commit() when saved_count > 0; otherwise the request
\* ends and the closing session discards what it has not committed.
RaceCommit(r) ==
    /\ crawl[r].pc = "lookup"
    /\ crawl[r].idx > Len(crawl[r].items)
    /\ RaceStepped(r,
                   [crawl[r] EXCEPT !.pc = "done", !.intel = {}, !.sources = {}],
                   IF crawl[r].saved > 0 THEN intelligence \cup crawl[r].intel ELSE intelligence,
                   IF crawl[r].saved > 0 THEN intel_sources \cup crawl[r].sources ELSE intel_sources)

NextRace ==
    \/ \E r \in 1..2 : RaceLookup(r)
    \/ \E r \in 1..2, outcome \in {"ok", "source fails", "locked"} : RaceInsert(r, outcome)
    \/ \E r \in 1..2 : RaceCommit(r)

SpecRace == InitRace /\ [][NextRace]_vars

\* C23: when the except of a loop iteration has caught an exception, the
\* session is rolled back before anything else runs on it: after the step
\* the session holds no uncommitted row.
C23_RollbackOnCaught ==
    [][ \A r \in 1..2 :
          (RaceInsert(r, "source fails") \/ RaceInsert(r, "locked"))
          => (crawl'[r].intel = {} /\ crawl'[r].sources = {}) ]_vars

\* C25: whatever the interleaving of the two requests, the committed table
\* holds at most one row per title.
C25_OneRowPerTitle == \A x, y \in intelligence : x.title = y.title => x = y

\* C27: every committed intelligence row has a committed source row.
C27_RowHasSource == \A x \in intelligence : \E s \in intel_sources : s.intelligence_id = x.id

(***************************************************************************)
(*                    AI SESSIONS AND BATCH STATUS                         *)
(***************************************************************************)

\* C22: every unit of AI work (the single-item endpoint, and each batch
\* item whose session opens and closes without error) runs on a session
\* acquired for that unit alone, which is closed when the unit ends, for a
\* success, a failure and a timeout alike: the unit leaves one more session,
\* closed, in the record of the sessions acquired for AI work.
C22_DedicatedSessionClosed ==
    [][ \A llm \in LlmOutcomes :
          /\ \A id \in 1..(MaxIntel + 1) :
               AiProcessIntelligence(id, llm) =>
                 (ai_sessions' # <<>> /\ ai_sessions'[Len(ai_sessions')] = "closed")
          /\ BatchItem(llm, TRUE, TRUE) =>
               (Len(ai_sessions') = Len(ai_sessions) + 1 /\ ai_sessions'[Len(ai_sessions')] = "closed")
      ]_vars

\* C29: a batch item whose LLM call failed or whose response failed
\* validation, so that the zero-scored default analysis was substituted, is
\* not reported with status success and does not add to success_count.
C29_DefaultNotSuccess ==
    [][ \A open_ok \in BOOLEAN, close_ok \in BOOLEAN :
          BatchItem([kind |-> "invalid"], open_ok, close_ok) =>
            /\ \A i \in (Len(ai_batch.results) + 1)..Len(ai_batch'.results) :
                 ai_batch'.results[i].status # "success"
            /\ ai_batch'.success_count = ai_batch.success_count
      ]_vars

(***************************************************************************)
(*                    COMPETITOR MARKER AND AI PROCESSING                  *)
(* toggle_competitor_status and the AI endpoints write the same column,    *)
(* intelligence.score_dimensions.                                          *)
(***************************************************************************)

\* score_dimensions.get('is_competitor', False) for a row's column text.
IsCompetitor(text) ==
    /\ text \notin {SqlNull, ""}
    /\ "is_competitor" \in DOMAIN JsonLoads(text)
    /\ JsonLoads(text)["is_competitor"]

\* Records that were analysed before, none of them marked yet.
InitFlag ==
    /\ \E n \in 1..MaxIntel :
         intelligence = { IntelRow(id, <<"t">>, NoTime, "pending", JsonDumps(Scores(8, "str"))) : id \in 1..n }
    /\ intel_sources = {}
    /\ sources = {} /\ topics = {} /\ clients = {} /\ source_topics = {} /\ client_topics = {}
    /\ job_queue = <<>>
    /\ request = [op |-> "none", refs |-> {}]
    /\ response = [status |-> "", is_competitor |-> FALSE]
    /\ ai_batch = NoBatch
    /\ ai_response = [status |-> "", message |-> "", results |-> <<>>, success_count |-> 0, total_count |-> 0]
    /\ ai_sessions = <<>>
    /\ llm_output = None /\ analysis = None
    /\ IdleDom /\ IdleScrape /\ IdleList /\ IdleExport /\ IdleCrawl

\* The LLM outcomes of these runs: a timeout, a response that fails
\* validation, and valid analyses that keep the title.
FlagOutcomes == { llm \in LlmOutcomes : llm.kind = "valid" => llm.new_title = <<"t">> }

NextFlag ==
    \/ \E id \in 1..(MaxIntel + 1) : ToggleCompetitorStatus(id)
    \/ \E id \in 1..(MaxIntel + 1), llm \in FlagOutcomes : AiProcessIntelligence(id, llm)
    \/ \E variant \in {"plain", "dates"}, ids \in { b \in BatchIds : Len(b) <= 1 } : BatchStart(variant, ids)
    \/ \E llm \in FlagOutcomes : BatchItem(llm, TRUE, TRUE)
    \/ BatchFinish

SpecFlag == InitFlag /\ [][NextFlag]_vars

\* C26: a record whose competitor flag the toggle set to true still has the
\* flag true after it is AI-processed, by the single-item endpoint or as an
\* item of a batch: the processing step keeps is_competitor in
\* score_dimensions.
C26_FlagSurvivesAi ==
    [][ \A id \in { r.id : r \in intelligence }, llm \in FlagOutcomes :
          ( /\ IsCompetitor(RowOf(intelligence, id).score_dimensions)
            /\ \/ AiProcessIntelligence(id, llm)
               \/ (BatchItem(llm, TRUE, TRUE) /\ ai_batch.ids[ai_batch.idx] = id) )
          => IsCompetitor(RowOf(intelligence', id).score_dimensions)
      ]_vars

(***************************************************************************)
(*                    BATCH ITEMS IN TIME                                  *)
(* The loop of batch_ai_process and of batch_ai_process_with_date_         *)
(* extraction at the grain of its awaits, for two batch requests that the  *)
(* event loop serves at once.  Here ai_batch, ai_sessions and ai_response  *)
(* hold one entry per request; ai_batch[r].item gives every item of the    *)
(* request its position:                                                   *)
(*   "waiting"   the loop has not reached the item                         *)
(*   "opened"    its session is acquired, the analysis is awaited          *)
(*   "processed" the analysis returned, the close of the session is next   *)
(*   "sleep"     the session is closed, asyncio.sleep is awaited           *)
(*   "finished"  the iteration is over                                     *)
(***************************************************************************)

\* The LLM outcomes of these runs.
SeqOutcomes == { [kind |-> "timeout"], [kind |-> "invalid"] }

\* Tasks started without awaiting the one before (asyncio.gather).
Gathered(b) == TRUE

\* `for idx, intel_id in enumerate(intelligence_ids, 1)` with every step of
\* the body awaited: the iteration of item b.next starts when the
\* iterations before it are over.
LoopAtHead(b) == \A j \in 1..(b.next - 1) : b.item[j] = "finished"

\* Where the iteration of item k goes after the close of its session: to
\* the sleep between items, or to its end for the last item.
AfterClose(b, k) == IF k < Len(b.ids) THEN "sleep" ELSE "finished"

InitSeq ==
    /\ intelligence = { IntelRow(id, <<"t">>, NoTime, "pending", "{}") : id \in 1..MaxIntel }
    /\ intel_sources = {}
    /\ ai_batch \in [ 1..2 -> { [variant |-> v, ids |-> [i \in 1..n |-> i], next |-> 1,
                                 item |-> [i \in 1..n |-> "waiting"], pending |-> <<>>,
                                 results |-> <<>>, success_count |-> 0, phase |-> "running"]
                                : v \in {"plain", "dates"}, n \in 1..MaxBatch } ]
    /\ ai_response = [ r \in 1..2 |-> [status |-> "", results |-> <<>>, success_count |-> 0, total_count |-> 0] ]
    /\ ai_sessions \in { s \in [ 1..2 -> UNION { [1..n -> {"none"}] : n \in 1..MaxBatch } ] :
                           \A r \in 1..2 : DOMAIN s[r] = DOMAIN ai_batch[r].ids }
    /\ llm_output = None /\ analysis = None
    /\ IdleDom /\ IdleScrape /\ IdleList /\ IdleCrud /\ IdleExport /\ IdleCrawl

\* One step of request r, given what it leaves.
SeqStepped(r, b, sess, table) ==
    /\ ai_batch' = [ai_batch EXCEPT ![r] = b]
    /\ ai_sessions' = [ai_sessions EXCEPT ![r] = sess]
    /\ intelligence' = table
    /\ UNCHANGED <<ai_response, intel_sources, llm_output, analysis>>
    /\ UNCHANGED <<domVars, scrapeVars, listVars, crudVars, exportVars, crawlVars>>

\* The error entry of a session that could not be acquired or closed.
SessionError(id) == [id |-> id, status |-> "error", message |-> "session error"]

\* The iteration of the next item starts: get_ai_processing_db().  When it
\* raises, batch_ai_process appends an error entry in the loop's except,
\* process_single_intelligence_isolated returns one.
SeqOpen(r, open_ok) ==
    LET b == ai_batch[r]
        k == b.next
    IN  /\ b.phase = "running"
        /\ k <= Len(b.ids)
        /\ LoopAtHead(b)
        /\ IF open_ok
           THEN SeqStepped(r, [b EXCEPT !.next = k + 1, !.item[k] = "opened"],
                           [ai_sessions[r] EXCEPT ![k] = "open"], intelligence)
           ELSE SeqStepped(r, [b EXCEPT !.next = k + 1,
                                        !.item[k] = IF b.variant = "plain" THEN "finished" ELSE AfterClose(b, k),
                                        !.results = Append(@, SessionError(b.ids[k]))],
                           [ai_sessions[r] EXCEPT ![k] = "not opened"], intelligence)

\* The awaited analysis of item k returns.  batch_ai_process appends the
\* result before the finally that closes the session; the isolated function
\* returns it through its finally.
SeqProcessed(r, k, out) ==
    LET b    == ai_batch[r]
        good == IF out.result.status = "success" THEN 1 ELSE 0
    IN  IF b.variant = "plain"
        THEN SeqStepped(r, [b EXCEPT !.item[k] = "processed", !.results = Append(@, out.result),
                                     !.success_count = @ + good],
                        ai_sessions[r], out.table)
        ELSE SeqStepped(r, [b EXCEPT !.item[k] = "processed", !.pending = <<out.result>>],
                        ai_sessions[r], out.table)

SeqProcess(r, k, llm) ==
    /\ k \in DOMAIN ai_batch[r].item
    /\ ai_batch[r].item[k] = "opened"
    /\ SeqProcessed(r, k, ProcessSingle(ai_batch[r].variant, ai_batch[r].ids[k], llm))

\* await ai_db.close() for item k.  In batch_ai_process an error of the
\* close reaches the loop's except, which appends an error entry and skips
\* the sleep; the isolated function swallows it.
SeqClose(r, k, close_ok) ==
    LET b    == ai_batch[r]
        sess == [ai_sessions[r] EXCEPT ![k] = IF close_ok THEN "closed" ELSE "close failed"]
        good == IF b.pending # <<>> /\ b.pending[1].status = "success" THEN 1 ELSE 0
    IN  /\ k \in DOMAIN b.item
        /\ b.item[k] = "processed"
        /\ IF b.variant = "plain"
           THEN IF close_ok
                THEN SeqStepped(r, [b EXCEPT !.item[k] = AfterClose(b, k)], sess, intelligence)
                ELSE SeqStepped(r, [b EXCEPT !.item[k] = "finished",
                                             !.results = Append(@, SessionError(b.ids[k]))],
                                sess, intelligence)
           ELSE SeqStepped(r, [b EXCEPT !.item[k] = AfterClose(b, k), !.pending = <<>>,
                                        !.results = @ \o b.pending, !.success_count = @ + good],
                           sess, intelligence)

\* asyncio.sleep between two items returns.
SeqSleep(r, k) ==
    /\ k \in DOMAIN ai_batch[r].item
    /\ ai_batch[r].item[k] = "sleep"
    /\ SeqStepped(r, [ai_batch[r] EXCEPT !.item[k] = "finished"], ai_sessions[r], intelligence)

\* The return after the loop.
SeqFinish(r) ==
    /\ ai_batch[r].phase = "running"
    /\ \A k \in DOMAIN ai_batch[r].item : ai_batch[r].item[k] = "finished"
    /\ ai_batch' = [ai_batch EXCEPT ![r].phase = "done"]
    /\ ai_response' = [ai_response EXCEPT ![r] = [status |-> "success", results |-> ai_batch[r].results,
                                                   success_count |-> ai_batch[r].success_count,
                                                   total_count |-> Len(ai_batch[r].ids)]]
    /\ UNCHANGED <<ai_sessions, tableVars, llm_output, analysis>>
    /\ UNCHANGED <<domVars, scrapeVars, listVars, crudVars, exportVars, crawlVars>>

NextSeq ==
    \E r \in 1..2 :
      \/ \E open_ok \in BOOLEAN : SeqOpen(r, open_ok)
      \/ \E k \in 1..(MaxBatch + 1), llm \in SeqOutcomes : SeqProcess(r, k, llm)
      \/ \E k \in 1..(MaxBatch + 1), close_ok \in BOOLEAN : SeqClose(r, k, close_ok)
      \/ \E k \in 1..(MaxBatch + 1) : SeqSleep(r, k)
      \/ SeqFinish(r)

SpecSeq == InitSeq /\ [][NextSeq]_vars

\* The items of request r that are in processing: begun, session not yet
\* through its close.
InProcessing(r) == { k \in DOMAIN ai_batch[r].item : ai_batch[r].item[k] \in {"opened", "processed"} }

SortDomains == <<"a.com", "ab.net", "b.org">>

\* The place of a domain in SQLite's ordering of the text.
DomainRank(domain) == CHOOSE i \in 1..Len(SortDomains) : SortDomains[i] = domain

\* Source.domain.ilike(f"%{q.strip()}%") for the search texts of the model.
DomainLike(domain, q) ==
    CASE q = "a"  -> domain \in {"a.com", "ab.net"}
      [] q = "B " -> domain \in {"ab.net", "b.org"}

\* The sort_by values of the model: the four of valid_sort_fields, another
\* column, a class attribute that is no column, and a name Source has not.
SortFields == {"id", "domain", "created_at", "updated_at", "recipe_json", "__tablename__", "bogus"}

valid_sort_fields == {"id", "domain", "created_at", "updated_at"}

\* The endpoint's `if sort not in valid_sort_fields: sort = 'id'`.
ValidatedSort(field) == IF field \in valid_sort_fields THEN field ELSE "id"

\* getattr(Source, sort_by, Source.id): the attribute of that name when the
\* class has one, Source.id otherwise.
SortColumn(sort_by) ==
    IF sort_by \in {"id", "domain", "created_at", "updated_at", "recipe_json", "__tablename__"}
    THEN sort_by ELSE "id"

\* The value ORDER BY compares for a row.
SortValue(row, column) ==
    CASE column = "id"          -> row.id
      [] column = "domain"      -> DomainRank(row.domain)
      [] column = "created_at"  -> row.created_at
      [] column = "updated_at"  -> row.updated_at
      [] column = "recipe_json" -> row.recipe_json

\* A sequence of ids lists the rows in the order of the column.
OrderedBy(ids, rows, column, desc) ==
    \A i, j \in 1..Len(ids) :
      i < j => LET a == SortValue(CHOOSE r \in rows : r.id = ids[i], column)
                   b == SortValue(CHOOSE r \in rows : r.id = ids[j], column)
               IN  IF desc THEN a >= b ELSE a <= b

\* The orders in which SQLite may return the rows for ORDER BY column:
\* rows with equal values come in any order.
Listings(rows, column, desc) ==
    { ids \in [1..Cardinality(rows) -> { r.id : r \in rows }] :
        /\ \A i, j \in 1..Cardinality(rows) : i # j => ids[i] # ids[j]
        /\ OrderedBy(ids, rows, column, desc) }

\* The rows the WHERE and JOIN of the query keep.
Filtered(q, topic_id) ==
    { r \in sources : /\ (q # "" => DomainLike(r.domain, q))
                      /\ (topic_id # 0 => <<r.id, topic_id>> \in source_topics) }

InitSort ==
    /\ \E d \in { <<1, 2, 3>>, <<3, 1, 2>> }, rj \in { <<2, 1, 1>>, <<1, 2, 3>> },
          c \in { <<1, 1, 2>>, <<2, 3, 1>> }, u \in { <<1, 2, 2>>, <<3, 2, 1>> } :
         sources = { [id |-> i, domain |-> SortDomains[d[i]], recipe_json |-> rj[i],
                      created_at |-> c[i], updated_at |-> u[i]] : i \in 1..3 }
    /\ topics = {1}
    /\ source_topics = { <<1, 1>>, <<3, 1>> }
    /\ clients = {} /\ client_topics = {}
    /\ job_queue = <<>>
    /\ request = [op |-> "none", sort |-> "id", order |-> "asc"]
    /\ response = [status |-> "", items |-> <<>>]
    /\ IdleDom /\ IdleScrape /\ IdleList /\ IdleTables /\ IdleExport /\ IdleAi /\ IdleCrawl

\* The listing call answers.
Listed(op, sort, order, status, items) ==
    /\ request' = [op |-> op, sort |-> sort, order |-> order]
    /\ response' = [status |-> status, items |-> items]
    /\ UNCHANGED <<sources, topics, clients, source_topics, client_topics, job_queue>>
    /\ UNCHANGED <<domVars, scrapeVars, listVars, tableVars, exportVars, aiVars, crawlVars>>

\* The query of get_sources_with_filter_and_sort.  A class attribute that
\* is not a column has no asc() or desc(): the call raises AttributeError.
SortedQuery(op, sort, order, q, topic_id, sort_by, order_by) ==
    IF SortColumn(sort_by) = "__tablename__"
    THEN Listed(op, sort, order, "AttributeError", <<>>)
    ELSE \E ids \in Listings(Filtered(q, topic_id), SortColumn(sort_by), order_by \in {"desc", "DESC"}) :
           Listed(op, sort, order, "ok", ids)

\* crud_operations.get_sources_with_filter_and_sort called with sort_by and
\* order_by as given.
GetSourcesWithFilterAndSort(q, topic_id, sort_by, order_by) ==
    SortedQuery("get_sources_with_filter_and_sort", sort_by, order_by, q, topic_id, sort_by, order_by)

\* GET /api/sources/?sort=..&order=..
ApiGetSourcesTable(q, topic_filter, sort, order) ==
    SortedQuery("api_get_sources_table", sort, order, q, topic_filter, ValidatedSort(sort),
                IF order \in {"asc", "desc", "DESC"} THEN order ELSE "asc")

NextSort ==
    \E q \in {"", "a", "B "}, topic_id \in 0..1, sort \in SortFields, order \in {"asc", "desc", "DESC", "up"} :
      \/ GetSourcesWithFilterAndSort(q, topic_id, sort, order)
      \/ ApiGetSourcesTable(q, topic_id, sort, order)

SpecSort == InitSort /\ [][NextSort]_vars

\* C24: the listing orders only by a column of valid_sort_fields (in the
\* requested direction); for any other requested sort field, at the CRUD
\* function and at the endpoint alike, the listing comes back ordered by id
\* ascending, and no other attribute of Source serves as the sort key.
C24_SortAllowList ==
    request.op # "none" =>
      /\ response.status = "ok"
      /\ IF request.sort \in valid_sort_fields
         THEN OrderedBy(response.items, sources, request.sort, request.order \in {"desc", "DESC"})
         ELSE OrderedBy(response.items, sources, "id", FALSE)

(***************************************************************************)
(*                    SAVED RECIPES                                        *)
(* POST /api/sources/manual_enhanced with the pagination fields of the     *)
(* form, and the ScraperRecipe a later crawl builds from recipe_data.      *)
(***************************************************************************)

\* Save forms with the pagination fields as a browser or a client sends
\* them: left out (None), empty, or filled in.
RecipeForms ==
    [ source_id : 0..MaxId, domain : { <<"e", "x", ".", "c">>, <<"x", ".", "c">>, <<" ">> }, list_selector : {"ul.news"},
      pagination_mode : {"none", "next", "loadmore", "number"},
      next_page_selector : {None, "", "a.next"}, load_more_selector : {None, "button.more"},
      page_pattern : {None, "?page={n}"},
      has_topic_ids : {FALSE}, topic_ids : {<<>>} ]

\* The value a ScraperRecipe built from recipe_data gives a pagination field: the
\* stored one, or the dataclass default None.
RecipeField(recipe_data, key) == IF key \in DOMAIN recipe_data THEN recipe_data[key] ELSE None

\* The three checks of ScraperRecipe.__post_init__ that raise ValueError.
PostInitRaises(recipe_data) ==
    \/ recipe_data.pagination_mode = "number" /\ RecipeField(recipe_data, "page_pattern") \in {None, ""}
    \/ recipe_data.pagination_mode = "next" /\ RecipeField(recipe_data, "next_page_selector") \in {None, ""}
    \/ recipe_data.pagination_mode = "loadmore" /\ RecipeField(recipe_data, "load_more_selector") \in {None, ""}

\* start_crawling reaches a stored source: json.loads of its recipe_json
\* and the ScraperRecipe constructor; a ValueError is caught per source and
\* reported as that source's error.
CrawlConstructs(id) ==
    /\ \E r \in sources : r.id = id
    /\ Respond("start_crawling", {}, 200,
               IF PostInitRaises((CHOOSE r \in sources : r.id = id).recipe_json) THEN "ValueError" ELSE "scraped")
    /\ UNCHANGED <<sources, topics, clients, source_topics, client_topics>>

NextSave ==
    \/ \E form \in RecipeForms : SaveSource(form)
    \/ \E id \in Ids : CrawlConstructs(id)

SpecSave == InitCrud /\ [][NextSave]_vars

\* C28: every recipe the manual save endpoint has stored in
\* Source.recipe_json passes the checks of ScraperRecipe.__post_init__
\* (number mode has a page_pattern, next mode a next_page_selector,
\* loadmore mode a load_more_selector), so a crawl can construct a
\* ScraperRecipe from it.
C28_StoredRecipeConstructs == \A r \in sources : ~PostInitRaises(r.recipe_json)

=============================================================================
